---- MODULE Spec2Model ----
(***************************************************************************)
(* Model of the PHP type-hint extension: the type normaliser and the       *)
(* hover-text extractor of src/src/typeHelper.ts.                          *)
(*                                                                         *)
(* A JavaScript string is a sequence of one-character strings, so that     *)
(* trimming, prefix tests and the regular expressions of the source are    *)
(* computed character by character.                                        *)
(***************************************************************************)
EXTENDS Integers, Sequences, FiniteSets, TLC

VARIABLES type, result, pc, contents, contentIndex, patternIndex,
          expr, node, returnTypes, hasReturn, hasUnknownReturn,
          hovers, hoverThrows, hoverIndex, inferencerRuns,
          cache, maxSize, accessOrder, last,
          ast, calls, callIndex, hints, config, cancelled, requests, responses,
          observedAt, threw

\* The variables of the inferencer and of getReturnTypeAtPosition
inferVars == <<expr, node, returnTypes, hasReturn, hasUnknownReturn>>

positionVars == <<hovers, hoverThrows, hoverIndex, inferencerRuns>>

\* The variables of AstCache: the map in insertion order, the bound, and, for
\* the properties, the cached keys from the least to the most recently used
\* and a record of the last call (for getAst: the document, the version and
\* the size found in the cache, whether parseCode was called, the key evicted
\* and the AST returned)
cacheVars == <<cache, maxSize, accessOrder, last>>

\* The variables of provideInlayHints: the call nodes of the document's
\* syntax tree, the calls parseFunctionCalls makes of them, the loop index, the hints collected, the configuration and the cancellation
\* token, and, for the properties, the positions signature help was asked
\* for, the index of the call at whose start the token was found requested
\* (0 if none) and whether an error was thrown inside the try block
hintVars == <<ast, calls, callIndex, hints, config, cancelled, requests, responses,
              observedAt, threw>>

vars == <<type, result, pc, contents, contentIndex, patternIndex, inferVars, positionVars,
          cacheVars, hintVars>>

\* null or undefined where the source expects a syntax-tree node
NoExpr == [kind |-> "absent"]

\* The inferencer has not been given anything
InferIdle ==
    /\ expr = NoExpr
    /\ node = NoExpr
    /\ returnTypes = <<>>
    /\ hasReturn = FALSE
    /\ hasUnknownReturn = FALSE

\* No call of the cache has been made
NoCall == [op |-> "none"]

\* There is no cache
CacheIdle ==
    /\ cache = <<>>
    /\ maxSize = 0
    /\ accessOrder = <<>>
    /\ last = NoCall

\* provideInlayHints has not been called
NoConfig == [enabled |-> FALSE, hideWhenArgumentMatchesName |-> FALSE]

HintIdle ==
    /\ ast = <<>>
    /\ calls = <<>>
    /\ callIndex = 0
    /\ hints = <<>>
    /\ config = NoConfig
    /\ cancelled = FALSE
    /\ requests = <<>>
    /\ responses = <<>>
    /\ observedAt = 0
    /\ threw = FALSE

\* No hover request is under way
PositionIdle ==
    /\ hovers = <<>>
    /\ hoverThrows = FALSE
    /\ hoverIndex = 0
    /\ inferencerRuns = 0

(***************************************************************************)
(* Bounds of the model.                                                    *)
(***************************************************************************)
MaxToks == 4

MaxSegs == 3

MaxParams == 2

MaxFrags == 3

MaxStmts == 3

MaxHovers == 3

\* The largest maxSize an AstCache is built with
MaxCacheSize == 2

\* The largest document.version
MaxVersion == 2

\* The largest number of arguments of the call of a one-call document
MaxArgs == 2

\* The largest number of calls of a document
MaxCalls == 2

(***************************************************************************)
(* Characters and the character classes of the regular expressions.        *)
(***************************************************************************)
Whitespace == {" ", "\n", "\t"}

UpperToLower ==
    [c \in {"A","B","C","D","E","F","G","H","I","J","K","L","M",
            "N","O","P","Q","R","S","T","U","V","W","X","Y","Z"} |->
        CASE c = "A" -> "a" [] c = "B" -> "b" [] c = "C" -> "c" [] c = "D" -> "d"
          [] c = "E" -> "e" [] c = "F" -> "f" [] c = "G" -> "g" [] c = "H" -> "h"
          [] c = "I" -> "i" [] c = "J" -> "j" [] c = "K" -> "k" [] c = "L" -> "l"
          [] c = "M" -> "m" [] c = "N" -> "n" [] c = "O" -> "o" [] c = "P" -> "p"
          [] c = "Q" -> "q" [] c = "R" -> "r" [] c = "S" -> "s" [] c = "T" -> "t"
          [] c = "U" -> "u" [] c = "V" -> "v" [] c = "W" -> "w" [] c = "X" -> "x"
          [] c = "Y" -> "y" [] c = "Z" -> "z"]

UpperCase == DOMAIN UpperToLower

LowerCase == {UpperToLower[c] : c \in UpperCase}

Digits == {"0","1","2","3","4","5","6","7","8","9"}

\* \w of a JavaScript regular expression: [A-Za-z0-9_]
WordChar == UpperCase \cup LowerCase \cup Digits \cup {"_"}

\* The backtick character, which a TLA+ string cannot hold
Backtick == "backtick"

Punctuation ==
    {"?", "|", "<", ">", "(", ")", "[", "]", "{", "}", "&", ":", ",", "-", "$",
     "\\", Backtick, "*", "@", "/", "."}

Characters == WordChar \cup Whitespace \cup Punctuation

\* . of a JavaScript regular expression: anything but a line terminator
Dot(c) == c # "\n"

(***************************************************************************)
(* String.prototype methods used by the source.                            *)
(***************************************************************************)
toLowerCase(s) == [i \in 1..Len(s) |-> IF s[i] \in UpperCase THEN UpperToLower[s[i]] ELSE s[i]]

startsWith(s, p) == Len(s) >= Len(p) /\ SubSeq(s, 1, Len(p)) = p

endsWith(s, p) == Len(s) >= Len(p) /\ SubSeq(s, Len(s) - Len(p) + 1, Len(s)) = p

\* s has p at position i (1-based)
HasAt(s, i, p) == i >= 1 /\ i + Len(p) - 1 <= Len(s) /\ SubSeq(s, i, i + Len(p) - 1) = p

includes(s, p) == \E i \in 1..(Len(s) + 1) : HasAt(s, i, p)

trim(s) ==
    LET keep == {i \in 1..Len(s) : s[i] \notin Whitespace}
    IN  IF keep = {} THEN <<>>
        ELSE LET lo == CHOOSE i \in keep : \A j \in keep : i <= j
                 hi == CHOOSE i \in keep : \A j \in keep : i >= j
             IN  SubSeq(s, lo, hi)

(***************************************************************************)
(* String literals of the source, as character sequences.                  *)
(***************************************************************************)
S_void == <<"v","o","i","d">>

S_never == <<"n","e","v","e","r">>

S_mixed == <<"m","i","x","e","d">>

S_null == <<"n","u","l","l">>

S_static == <<"s","t","a","t","i","c">>

S_this == <<"$","t","h","i","s">>

S_array == <<"a","r","r","a","y">>

S_int == <<"i","n","t">>

S_string == <<"s","t","r","i","n","g">>

S_arrayLt == <<"a","r","r","a","y","<">>

S_listLt == <<"l","i","s","t","<">>

S_nonEmptyArray == <<"n","o","n","-","e","m","p","t","y","-","a","r","r","a","y">>

S_arrayBrace == <<"a","r","r","a","y","{">>

S_callableParen == <<"c","a","l","l","a","b","l","e","(">>

S_closureParen == <<"c","l","o","s","u","r","e","(">>

S_classStringLt == <<"c","l","a","s","s","-","s","t","r","i","n","g","<">>

S_barNull == <<"|","n","u","l","l">>

\* /^(positive|negative|non-positive|non-negative)-int$/i
IntAliases ==
    {<<"p","o","s","i","t","i","v","e","-","i","n","t">>,
     <<"n","e","g","a","t","i","v","e","-","i","n","t">>,
     <<"n","o","n","-","p","o","s","i","t","i","v","e","-","i","n","t">>,
     <<"n","o","n","-","n","e","g","a","t","i","v","e","-","i","n","t">>}

\* /^(non-empty|literal|class|callable|numeric|truthy|non-falsy)-string$/i
StringAliases ==
    {<<"n","o","n","-","e","m","p","t","y","-","s","t","r","i","n","g">>,
     <<"l","i","t","e","r","a","l","-","s","t","r","i","n","g">>,
     <<"c","l","a","s","s","-","s","t","r","i","n","g">>,
     <<"c","a","l","l","a","b","l","e","-","s","t","r","i","n","g">>,
     <<"n","u","m","e","r","i","c","-","s","t","r","i","n","g">>,
     <<"t","r","u","t","h","y","-","s","t","r","i","n","g">>,
     <<"n","o","n","-","f","a","l","s","y","-","s","t","r","i","n","g">>}

(***************************************************************************)
(* normalizeSingleType: the rules, in the order the source tries them.     *)
(***************************************************************************)
\* A run of at least one "." (no line terminator) between positions lo and hi
DotPlus(s, lo, hi) == lo <= hi /\ \A i \in lo..hi : Dot(s[i])

\* type.match(/\[\]$/)
MatchesArraySuffix(t) == endsWith(t, <<"[","]">>)

\* type.toLowerCase().startsWith('array<') && type.endsWith('>')
MatchesArrayGeneric(t) == startsWith(toLowerCase(t), S_arrayLt) /\ endsWith(t, <<">">>)

\* type.match(/^list<.+>$/i)
MatchesList(t) ==
    /\ startsWith(toLowerCase(t), S_listLt)
    /\ endsWith(t, <<">">>)
    /\ DotPlus(t, Len(S_listLt) + 1, Len(t) - 1)

\* type.match(/^non-empty-array/i)
MatchesNonEmptyArray(t) == startsWith(toLowerCase(t), S_nonEmptyArray)

\* type.match(/^array\{.+\}$/i)
MatchesArrayShape(t) ==
    /\ startsWith(toLowerCase(t), S_arrayBrace)
    /\ endsWith(t, <<"}">>)
    /\ DotPlus(t, Len(S_arrayBrace) + 1, Len(t) - 1)

\* Length of the keyword matched by /^(callable|Closure)/i, 0 when none
CallableKeywordLen(t) ==
    IF startsWith(toLowerCase(t), S_callableParen) THEN Len(S_callableParen) - 1
    ELSE IF startsWith(toLowerCase(t), S_closureParen) THEN Len(S_closureParen) - 1
    ELSE 0

\* type.match(/^(callable|Closure)\(.+\)/i)
MatchesCallable(t) ==
    LET k == CallableKeywordLen(t)
    IN  /\ k > 0
        /\ \E j \in (k + 3)..Len(t) : t[j] = ")" /\ DotPlus(t, k + 2, j - 1)

\* type.match(/^(positive|negative|non-positive|non-negative)-int$/i)
MatchesIntAlias(t) == toLowerCase(t) \in IntAliases

\* type.match(/^(non-empty|literal|class|callable|numeric|truthy|non-falsy)-string$/i)
MatchesStringAlias(t) == toLowerCase(t) \in StringAliases

\* type.match(/^class-string<.+>$/i)
MatchesClassStringGeneric(t) ==
    /\ startsWith(toLowerCase(t), S_classStringLt)
    /\ endsWith(t, <<">">>)
    /\ DotPlus(t, Len(S_classStringLt) + 1, Len(t) - 1)

\* [A-Za-z_] and [A-Za-z0-9_\\] of the generic pattern
NameStart(c) == c \in UpperCase \cup LowerCase \cup {"_"}

NameChar(c) == c \in WordChar \cup {"\\"}

\* Length of the longest prefix matching [A-Za-z_][A-Za-z0-9_\\]*, 0 when none
GenericNameLen(t) ==
    IF Len(t) = 0 \/ ~NameStart(t[1]) THEN 0
    ELSE LET stop == {i \in 2..Len(t) : ~NameChar(t[i])}
         IN  IF stop = {} THEN Len(t)
             ELSE (CHOOSE i \in stop : \A j \in stop : i <= j) - 1

\* type.match(/^([A-Za-z_][A-Za-z0-9_\\]*)<.+>$/): the name cannot be
\* shortened by backtracking, "<" is no name character
MatchesGeneric(t) ==
    LET n == GenericNameLen(t)
    IN  /\ n > 0
        /\ n + 1 <= Len(t)
        /\ t[n + 1] = "<"
        /\ endsWith(t, <<">">>)
        /\ DotPlus(t, n + 2, Len(t) - 1)

\* The rules after the trim
normalizeTrimmedType(t) ==
    IF t = S_this THEN S_static
    ELSE IF MatchesArraySuffix(t) THEN S_array
    ELSE IF MatchesArrayGeneric(t) THEN S_array
    ELSE IF MatchesList(t) THEN S_array
    ELSE IF MatchesNonEmptyArray(t) THEN S_array
    ELSE IF MatchesArrayShape(t) THEN S_array
    ELSE IF MatchesCallable(t) THEN SubSeq(t, 1, CallableKeywordLen(t))
    ELSE IF MatchesIntAlias(t) THEN S_int
    ELSE IF MatchesStringAlias(t) THEN S_string
    ELSE IF MatchesClassStringGeneric(t) THEN S_string
    ELSE IF MatchesGeneric(t) THEN SubSeq(t, 1, GenericNameLen(t))
    ELSE t

\* Mutant: the fallback returns the type in lower case
normalizeSingleTypeLowerFallback(raw) ==
    LET t == trim(raw)
    IN  IF normalizeTrimmedType(t) = t THEN toLowerCase(t) ELSE normalizeTrimmedType(t)

normalizeSingleType(raw) == normalizeTrimmedType(trim(raw))

(***************************************************************************)
(* hasTopLevelUnion and splitTopLevelUnion: one pass with a depth counter. *)
(***************************************************************************)
\* Mutant: the parenthesis is not counted as an opener
OpenersWithoutParen == {"<", "{"}

Openers == {"<", "(", "{"}

Closers == {">", ")", "}"}

RECURSIVE hasTopLevelUnionFrom(_, _, _)
hasTopLevelUnionFrom(t, i, depth) ==
    IF i > Len(t) THEN FALSE
    ELSE IF t[i] \in Openers THEN hasTopLevelUnionFrom(t, i + 1, depth + 1)
    ELSE IF t[i] \in Closers THEN hasTopLevelUnionFrom(t, i + 1, depth - 1)
    ELSE IF t[i] = "|" /\ depth = 0 THEN TRUE
    ELSE hasTopLevelUnionFrom(t, i + 1, depth)

hasTopLevelUnion(t) == hasTopLevelUnionFrom(t, 1, 0)

RECURSIVE splitTopLevelUnionFrom(_, _, _, _, _)
splitTopLevelUnionFrom(t, i, depth, current, parts) ==
    IF i > Len(t) THEN (IF current # <<>> THEN Append(parts, current) ELSE parts)
    ELSE IF t[i] \in Openers
        THEN splitTopLevelUnionFrom(t, i + 1, depth + 1, Append(current, t[i]), parts)
    ELSE IF t[i] \in Closers
        THEN splitTopLevelUnionFrom(t, i + 1, depth - 1, Append(current, t[i]), parts)
    ELSE IF t[i] = "|" /\ depth = 0
        THEN splitTopLevelUnionFrom(t, i + 1, depth, <<>>, Append(parts, current))
    ELSE splitTopLevelUnionFrom(t, i + 1, depth, Append(current, t[i]), parts)

splitTopLevelUnion(t) == splitTopLevelUnionFrom(t, 1, 0, <<>>, <<>>)

(***************************************************************************)
(* Array helpers of the union branch.                                      *)
(***************************************************************************)
\* parts.filter(p => p): the empty string is falsy
RECURSIVE filterNonEmpty(_)
filterNonEmpty(parts) ==
    IF parts = <<>> THEN <<>>
    ELSE IF Head(parts) = <<>> THEN filterNonEmpty(Tail(parts))
    ELSE <<Head(parts)>> \o filterNonEmpty(Tail(parts))

\* [...new Set(parts)]: a Set iterates in insertion order
RECURSIVE uniqueFrom(_, _)
uniqueFrom(parts, seen) ==
    IF parts = <<>> THEN seen
    ELSE IF \E k \in 1..Len(seen) : seen[k] = Head(parts)
        THEN uniqueFrom(Tail(parts), seen)
    ELSE uniqueFrom(Tail(parts), Append(seen, Head(parts)))

\* Mutant: keeps the last occurrence of a duplicate instead of the first
RECURSIVE uniqueKeepLast(_)
uniqueKeepLast(parts) ==
    IF parts = <<>> THEN <<>>
    ELSE IF \E k \in 2..Len(parts) : parts[k] = Head(parts)
        THEN uniqueKeepLast(Tail(parts))
    ELSE <<Head(parts)>> \o uniqueKeepLast(Tail(parts))

unique(parts) == uniqueFrom(parts, <<>>)

\* parts.join('|')
RECURSIVE join(_)
join(parts) ==
    IF parts = <<>> THEN <<>>
    ELSE IF Len(parts) = 1 THEN parts[1]
    ELSE parts[1] \o <<"|">> \o join(Tail(parts))

(***************************************************************************)
(* normalizePhpReturnType                                                  *)
(***************************************************************************)
normalizeUnion(t) ==
    LET split == splitTopLevelUnion(t)
        parts == [k \in 1..Len(split) |-> normalizeSingleType(trim(split[k]))]
    IN  join(unique(filterNonEmpty(parts)))

\* Mutant: the union test comes before the nullable test
normalizePhpReturnTypeUnionFirst(t) ==
    IF t = <<>> \/ t = S_void \/ t = S_never \/ t = S_mixed THEN t
    ELSE IF t = S_null THEN t
    ELSE IF hasTopLevelUnion(t) THEN normalizeUnion(t)
    ELSE IF startsWith(t, <<"?">>)
        THEN normalizeSingleType(SubSeq(t, 2, Len(t))) \o S_barNull
    ELSE normalizeSingleType(t)

normalizePhpReturnType(t) ==
    IF t = <<>> \/ t = S_void \/ t = S_never \/ t = S_mixed THEN t
    ELSE IF t = S_null THEN t
    ELSE IF startsWith(t, <<"?">>)
        THEN normalizeSingleType(SubSeq(t, 2, Len(t))) \o S_barNull
    ELSE IF hasTopLevelUnion(t) THEN normalizeUnion(t)
    ELSE normalizeSingleType(t)

(***************************************************************************)
(* The normaliser as a state machine.  The input type strings are drawn    *)
(* from three families: concatenations of at most MaxToks grammar tokens   *)
(* (every small string, malformed ones included), unions of at most        *)
(* MaxSegs segments with an optional nullable marker, and callable         *)
(* signatures with at most MaxParams parameters.                           *)
(***************************************************************************)
TypeTokens ==
    {<<"?">>, <<"|">>, <<"<">>, <<">">>, <<"(">>, <<")">>, <<"[","]">>, <<" ">>,
     <<"A">>, S_null, <<"C","l","o","s","u","r","e">>}

Segments ==
    {<<"U","s","e","r">>,
     <<"i","n","t","[","]">>,
     <<"A","[","]">>,
     <<"n","u","l","l">>,
     <<>>,
     <<" ","i","n","t"," ">>,
     <<"(","A","&","B",")">>,
     <<"(","A","[","]","|","B",")">>,
     <<"C","<","A","|","B",">">>,
     <<"C","<","U","s","e","r",">">>}

CallableKeywords ==
    {<<"c","a","l","l","a","b","l","e">>,
     <<"C","l","o","s","u","r","e">>,
     <<"C","A","L","L","A","B","L","E">>}

CallableParams ==
    {<<"i","n","t">>,
     <<"A">>}

CallableReturns ==
    {<<>>,
     <<":"," ","A">>,
     <<":"," ","A","<","B",">">>,
     <<":"," ","A","[","]">>,
     <<":"," ","v","o","i","d">>}

RECURSIVE Concat(_)
Concat(toks) == IF toks = <<>> THEN <<>> ELSE Head(toks) \o Concat(Tail(toks))

RECURSIVE JoinWith(_, _)
JoinWith(strs, sep) ==
    IF strs = <<>> THEN <<>>
    ELSE IF Len(strs) = 1 THEN strs[1]
    ELSE strs[1] \o sep \o JoinWith(Tail(strs), sep)

IsTokenInput(t) == \E k \in 0..MaxToks : \E f \in [1..k -> TypeTokens] : t = Concat(f)

IsUnionInput(t) ==
    \E k \in 1..MaxSegs : \E f \in [1..k -> Segments] : \E q \in {<<>>, <<"?">>} :
        t = q \o JoinWith(f, <<"|">>)

IsCallableInput(t) ==
    \E kw \in CallableKeywords : \E k \in 0..MaxParams : \E f \in [1..k -> CallableParams] :
        \E r \in CallableReturns :
            t = kw \o <<"(">> \o JoinWith(f, <<",", " ">>) \o <<")">> \o r

NoResult == <<"<none>">>

Init ==
    /\ \/ IsTokenInput(type)
       \/ IsUnionInput(type)
       \/ IsCallableInput(type)
    /\ result = NoResult
    /\ pc = "start"
    /\ contents = <<>>
    /\ contentIndex = 0
    /\ patternIndex = 0
    /\ InferIdle
    /\ PositionIdle
    /\ CacheIdle
    /\ HintIdle

\* normalizePhpReturnType(type), as called by normalizeReturnType
Normalize ==
    /\ pc = "start"
    /\ result' = normalizePhpReturnType(type)
    /\ pc' = "done"
    /\ UNCHANGED <<type, contents, contentIndex, patternIndex>>
    /\ UNCHANGED <<inferVars, positionVars, cacheVars, hintVars>>

\* normalizeSingleType(type) on its own
NormalizeSingle ==
    /\ pc = "start"
    /\ result' = normalizeSingleType(type)
    /\ pc' = "single"
    /\ UNCHANGED <<type, contents, contentIndex, patternIndex>>
    /\ UNCHANGED <<inferVars, positionVars, cacheVars, hintVars>>

Next == Normalize \/ NormalizeSingle

Spec == Init /\ [][Next]_vars

(***************************************************************************)
(* The regular expressions of extractReturnTypeFromHover.  Each is         *)
(* computed as a backtracking matcher computes it: the leftmost start      *)
(* position that matches, greedy quantifiers taking the longest run and    *)
(* the lazy one the shortest.  A match is reported as the span of its      *)
(* capture group.                                                          *)
(***************************************************************************)
Min(S) == CHOOSE x \in S : \A y \in S : x <= y

Max(S) == CHOOSE x \in S : \A y \in S : x >= y

NoSpan == <<0, 0>>

NoMatch == <<"<no match>">>

\* Where a greedy \s* that starts at i stops
SkipWhitespace(s, i) ==
    LET stop == {j \in i..Len(s) : s[j] \notin Whitespace}
    IN  IF stop = {} THEN Len(s) + 1 ELSE Min(stop)

\* Where a greedy \w* that starts at i stops
SkipWordChars(s, i) ==
    LET stop == {j \in i..Len(s) : s[j] \notin WordChar}
    IN  IF stop = {} THEN Len(s) + 1 ELSE Min(stop)

\* \b between s[i-1] and s[i]
WordBoundary(s, i) ==
    LET before == i > 1 /\ i - 1 <= Len(s) /\ s[i - 1] \in WordChar
        after == i >= 1 /\ i <= Len(s) /\ s[i] \in WordChar
    IN  before # after

\* \([^)]*\)\s*:\s*([^\s{]+) at position i
SignatureTail(s, i) ==
    IF i > Len(s) \/ s[i] # "(" THEN NoSpan
    ELSE LET closes == {j \in (i + 1)..Len(s) : s[j] = ")"}
         IN  IF closes = {} THEN NoSpan
             ELSE LET colon == SkipWhitespace(s, Min(closes) + 1)
                  IN  IF colon > Len(s) \/ s[colon] # ":" THEN NoSpan
                      ELSE LET lo == SkipWhitespace(s, colon + 1)
                               stop == {j \in lo..Len(s) : s[j] \in Whitespace \cup {"{"}}
                               hi == IF stop = {} THEN Len(s) ELSE Min(stop) - 1
                           IN  IF hi < lo THEN NoSpan ELSE <<lo, hi>>

S_function == <<"f","u","n","c","t","i","o","n">>

S_fn == <<"f","n">>

S_closure == <<"c","l","o","s","u","r","e">>

S_callable == <<"c","a","l","l","a","b","l","e">>

S_docReturn == <<"_","@","r","e","t","u","r","n","_">>

S_atReturn == <<"@","r","e","t","u","r","n">>

S_codeFence == <<Backtick, Backtick, Backtick>>

\* /\bfunction\b\s*(?:\w+\s*)?\([^)]*\)\s*:\s*([^\s{]+)/ started at i
FunctionSignatureAt(s, i) ==
    IF ~(HasAt(s, i, S_function) /\ WordBoundary(s, i)
            /\ WordBoundary(s, i + Len(S_function)))
    THEN NoSpan
    ELSE LET a == SkipWhitespace(s, i + Len(S_function))
             paren == IF a <= Len(s) /\ s[a] \in WordChar
                      THEN SkipWhitespace(s, SkipWordChars(s, a))
                      ELSE a
         IN  SignatureTail(s, paren)

\* /\bfn\b\s*\([^)]*\)\s*:\s*([^\s{]+)/ started at i
ArrowSignatureAt(s, i) ==
    IF ~(HasAt(s, i, S_fn) /\ WordBoundary(s, i) /\ WordBoundary(s, i + Len(S_fn)))
    THEN NoSpan
    ELSE SignatureTail(s, SkipWhitespace(s, i + Len(S_fn)))

\* s has p at position i under the i flag (p in lower case)
HasAtIgnoringCase(s, i, p) ==
    /\ i >= 1
    /\ i + Len(p) - 1 <= Len(s)
    /\ toLowerCase(SubSeq(s, i, i + Len(p) - 1)) = p

\* /(?:^|[^\w@])(?:\\?Closure|\\?callable)\s*\([^)]*\)\s*:\s*([^\s{]+)/i with
\* the keyword at i: the character before the keyword, if any, is the
\* optional backslash or the [^\w@] character, so it is neither \w nor "@"
ClosureLikeAt(s, i) ==
    LET kw == IF HasAtIgnoringCase(s, i, S_closure) THEN Len(S_closure)
              ELSE IF HasAtIgnoringCase(s, i, S_callable) THEN Len(S_callable)
              ELSE 0
    IN  IF kw = 0 \/ ~(i = 1 \/ s[i - 1] \notin WordChar \cup {"@"}) THEN NoSpan
        ELSE SignatureTail(s, SkipWhitespace(s, i + kw))

\* /_@return_\s*`([^`]+)`/ started at i
BacktickedReturnAt(s, i) ==
    IF ~HasAt(s, i, S_docReturn) THEN NoSpan
    ELSE LET open == SkipWhitespace(s, i + Len(S_docReturn))
         IN  IF open > Len(s) \/ s[open] # Backtick THEN NoSpan
             ELSE LET closes == {j \in (open + 1)..Len(s) : s[j] = Backtick}
                  IN  IF closes = {} \/ Min(closes) = open + 1 THEN NoSpan
                      ELSE <<open + 1, Min(closes) - 1>>

\* (?:\s*(?:\n|\*\/|$)) at position p
ReturnTail(s, p) ==
    \E q \in p..SkipWhitespace(s, p) :
        q = Len(s) + 1 \/ s[q] = "\n" \/ HasAt(s, q, <<"*", "/">>)

\* /@return\s+([^\n*]+?)(?:\s*(?:\n|\*\/|$))/ started at i: the greedy \s+
\* gives whitespace back one character at a time, and for each length the
\* lazy capture grows one character at a time
PlainReturnAt(s, i) ==
    IF ~HasAt(s, i, S_atReturn) THEN NoSpan
    ELSE LET ws == i + Len(S_atReturn)
             spans == {x \in ((ws + 1)..SkipWhitespace(s, ws)) \X ((ws + 1)..Len(s)) :
                          /\ x[1] <= x[2]
                          /\ \A j \in x[1]..x[2] : s[j] \notin {"\n", "*"}
                          /\ ReturnTail(s, x[2] + 1)}
         IN  IF spans = {} THEN NoSpan
             ELSE LET lo == Max({x[1] : x \in spans})
                  IN  <<lo, Min({x[2] : x \in {y \in spans : y[1] = lo}})>>

signaturePatterns == <<"function", "fn">>

closureLikePattern == "closureLike"

docPatterns == <<"_@return_", "@return">>

\* The closure pattern is left out of the list by the unguarded variant only
patternsAlwaysClosure(text) ==
    signaturePatterns \o <<closureLikePattern>> \o docPatterns

patterns(text) ==
    signaturePatterns
        \o (IF includes(text, S_atReturn) THEN <<>> ELSE <<closureLikePattern>>)
        \o docPatterns

\* The capture span of the pattern when its match starts at i, or NoSpan
SpanAt(text, i, pattern) ==
    CASE pattern = "function" -> FunctionSignatureAt(text, i)
      [] pattern = "fn" -> ArrowSignatureAt(text, i)
      [] pattern = "closureLike" -> ClosureLikeAt(text, i)
      [] pattern = "_@return_" -> BacktickedReturnAt(text, i)
      [] pattern = "@return" -> PlainReturnAt(text, i)

\* text.match(pattern)[1], the capture of the leftmost match, or NoMatch
match(text, pattern) ==
    LET starts == {i \in 1..Len(text) : SpanAt(text, i, pattern) # NoSpan}
    IN  IF starts = {} THEN NoMatch
        ELSE LET span == SpanAt(text, Min(starts), pattern)
             IN  SubSeq(text, span[1], span[2])

\* !returnType.includes('```') && !returnType.includes('*')
IsCleanCapture(returnType) ==
    ~includes(returnType, S_codeFence) /\ ~includes(returnType, <<"*">>)

normalizeReturnType(t) ==
    LET noTicks == SelectSeq(t, LAMBDA c : c # Backtick)
        rest == {i \in 1..Len(noTicks) : noTicks[i] # "\\"}
        noSlashes == IF rest = {} THEN <<>> ELSE SubSeq(noTicks, Min(rest), Len(noTicks))
    IN  normalizePhpReturnType(trim(noSlashes))

(***************************************************************************)
(* extractReturnTypeFromHover as a state machine: the contents of a hover  *)
(* are visited in order and, for each, the patterns in order.  A content   *)
(* is a concatenation of at most MaxFrags text fragments; a hover has no   *)
(* content, one content, or a signature whose capture is rejected followed *)
(* by one content of fewer than MaxFrags fragments.  A second family of    *)
(* contents holds the documentation comments whose @return tag is a        *)
(* callable signature of at most MaxParams parameters.                     *)
(***************************************************************************)
TextFragments ==
    {<<"f","u","n","c","t","i","o","n"," ","f","(","x",")",":"," ","A">>,
     <<"f","n","(","x",")",":"," ","B">>,
     <<"C","l","o","s","u","r","e","(","x",")",":"," ","C">>,
     <<"_","@","r","e","t","u","r","n","_"," ",Backtick,"D">>,
     <<" ","@","r","e","t","u","r","n"," ">>,
     <<" ">>,
     <<"\n">>,
     <<"*","/">>,
     <<"x">>,
     <<Backtick>>,
     <<Backtick,Backtick,Backtick>>}

RejectedContent == <<"f","n","(","x",")",":"," ","B","*">>

Null == <<"<null>">>

\* What stands before and after an @return tag in a documentation comment
ReturnTagLeads == {<<>>, <<" ", "*", " ">>}

ReturnTagTrailers == {<<>>, <<"\n">>, <<" ", "*", "/">>, <<"\n", " ", "*", "/">>}

\* lead, "@return ", a callable signature with a return type, trailer
ReturnTagText(lead, kw, params, ret, trailer) ==
    lead \o S_atReturn \o <<" ">> \o kw \o <<"(">> \o JoinWith(params, <<",", " ">>)
        \o <<")">> \o ret \o trailer

InitExtract ==
    /\ \/ contents = <<>>
       \/ \E lead \in ReturnTagLeads : \E kw \in CallableKeywords :
            \E k \in 0..MaxParams : \E f \in [1..k -> CallableParams] :
                \E ret \in CallableReturns \ {<<>>} : \E trailer \in ReturnTagTrailers :
                    contents = <<ReturnTagText(lead, kw, f, ret, trailer)>>
       \/ \E k \in 0..MaxFrags : \E f \in [1..k -> TextFragments] :
            contents = <<Concat(f)>>
       \/ \E k \in 0..(MaxFrags - 1) : \E f \in [1..k -> TextFragments] :
            contents = <<RejectedContent, Concat(f)>>
    /\ contentIndex = 1
    /\ patternIndex = 1
    /\ type = <<>>
    /\ result = NoResult
    /\ pc = "hover"
    /\ InferIdle
    /\ PositionIdle
    /\ CacheIdle
    /\ HintIdle

\* One round of the loop over the patterns of the current content
TryPattern ==
    /\ pc = "hover"
    /\ contentIndex <= Len(contents)
    /\ LET text == contents[contentIndex]
       IN  /\ patternIndex <= Len(patterns(text))
           /\ LET m == match(text, patterns(text)[patternIndex])
                  returnType == trim(m)
              IN  IF m # NoMatch /\ m # <<>> /\ IsCleanCapture(returnType)
                  THEN /\ type' = returnType
                       /\ result' = normalizeReturnType(returnType)
                       /\ pc' = "returned"
                       /\ UNCHANGED patternIndex
                  ELSE /\ patternIndex' = patternIndex + 1
                       /\ UNCHANGED <<type, result, pc>>
    /\ UNCHANGED <<contents, contentIndex>>
    /\ UNCHANGED <<inferVars, positionVars, cacheVars, hintVars>>

\* The patterns of the current content are used up: on to the next content
NextContent ==
    /\ pc = "hover"
    /\ contentIndex <= Len(contents)
    /\ patternIndex > Len(patterns(contents[contentIndex]))
    /\ contentIndex' = contentIndex + 1
    /\ patternIndex' = 1
    /\ UNCHANGED <<type, result, pc, contents>>
    /\ UNCHANGED <<inferVars, positionVars, cacheVars, hintVars>>

\* No contents, or no content gave a type
ReturnNull ==
    /\ pc = "hover"
    /\ contentIndex > Len(contents)
    /\ result' = Null
    /\ pc' = "returned"
    /\ UNCHANGED <<type, contents, contentIndex, patternIndex>>
    /\ UNCHANGED <<inferVars, positionVars, cacheVars, hintVars>>

NextExtract == TryPattern \/ NextContent \/ ReturnNull

SpecExtract == InitExtract /\ [][NextExtract]_vars

(***************************************************************************)
(* inferExpressionType.  A syntax-tree node is a record with the fields of *)
(* its kind; a property that holds something other than a string where the *)
(* source tests for one is NotAString.                                     *)
(***************************************************************************)
S_float == <<"f","l","o","a","t">>

S_bool == <<"b","o","o","l">>

NotAString == <<"<not a string>">>

\* A JavaScript value used as a condition: null and '' are falsy
Truthy(t) == t # Null /\ t # <<>>

StringKinds == {"string", "encapsed", "nowdoc", "heredoc"}

NullKinds == {"nullkeyword", "null"}

BoolOperators ==
    {">", "<", ">=", "<=", "==", "===", "!=", "!==", "<>",
     "&&", "||", "and", "or", "xor", "instanceof"}

ArithmeticOperators == {"+", "-", "*", "/"}

\* The three tests on the operand types of an arithmetic operator
\* Mutant: int is looked for before float
ArithmeticTypeIntFirst(leftType, rightType) ==
    IF leftType = S_int \/ rightType = S_int THEN S_int
    ELSE IF leftType = S_float \/ rightType = S_float THEN S_float
    ELSE IF Truthy(leftType) \/ Truthy(rightType) THEN S_int
    ELSE Null

ArithmeticType(leftType, rightType) ==
    IF leftType = S_float \/ rightType = S_float THEN S_float
    ELSE IF leftType = S_int \/ rightType = S_int THEN S_int
    ELSE IF Truthy(leftType) \/ Truthy(rightType) THEN S_int
    ELSE Null

\* case 'new'
NewType(e) ==
    IF e.what # NoExpr /\ Truthy(e.what.name) /\ e.what.name # NotAString
    THEN e.what.name
    ELSE Null

\* Mutant: the two types are joined whenever they differ
TernaryTypeJoinAlways(trueType, falseType) ==
    IF trueType = falseType THEN trueType
    ELSE IF Truthy(trueType) \/ Truthy(falseType)
    THEN (IF Truthy(trueType) THEN trueType ELSE S_null) \o <<"|">>
            \o (IF Truthy(falseType) THEN falseType ELSE S_null)
    ELSE Null

\* case 'retif', from the types of the two branches
TernaryType(trueType, falseType) ==
    IF trueType = falseType THEN trueType
    ELSE IF Truthy(trueType) /\ Truthy(falseType)
    THEN trueType \o <<"|">> \o falseType
    ELSE Null

RECURSIVE inferExpressionType(_)
inferExpressionType(e) ==
    IF e = NoExpr THEN Null
    ELSE CASE e.kind = "array" -> S_array
           [] e.kind \in StringKinds -> S_string
           [] e.kind = "number" ->
                IF Truthy(e.value) /\ e.value # NotAString /\ includes(e.value, <<".">>)
                THEN S_float
                ELSE S_int
           [] e.kind = "boolean" -> S_bool
           [] e.kind \in NullKinds -> S_null
           [] e.kind = "new" -> NewType(e)
           [] e.kind = "variable" ->
                IF e.name = <<"t","h","i","s">> THEN S_static ELSE Null
           [] e.kind = "bin" ->
                IF e.type \in BoolOperators THEN S_bool
                ELSE LET arithmetic ==
                             IF e.type \in ArithmeticOperators
                             THEN ArithmeticType(inferExpressionType(e.left),
                                                 inferExpressionType(e.right))
                             ELSE Null
                     IN  IF arithmetic # Null THEN arithmetic
                         ELSE IF e.type = "." THEN S_string
                         ELSE Null
           [] e.kind = "unary" -> IF e.type = "!" THEN S_bool ELSE Null
           [] e.kind = "retif" ->
                TernaryType(inferExpressionType(e.trueExpr), inferExpressionType(e.falseExpr))
           [] OTHER -> Null

(***************************************************************************)
(* inferExpressionType as a state machine.  The expressions are the        *)
(* literals, instantiations, variables and calls below, and the unary,     *)
(* binary and ternary expressions over them and over three composite       *)
(* operands.                                                               *)
(***************************************************************************)
E_string == [kind |-> "string"]

E_int == [kind |-> "number", value |-> <<"1">>]

E_float == [kind |-> "number", value |-> <<"1", ".", "5">>]

E_null == [kind |-> "nullkeyword"]

E_variable == [kind |-> "variable", name |-> <<"x">>]

E_this == [kind |-> "variable", name |-> <<"t","h","i","s">>]

\* new A(), new B()
E_newA == [kind |-> "new", what |-> [kind |-> "name", name |-> <<"A">>]]

E_newB == [kind |-> "new", what |-> [kind |-> "name", name |-> <<"B">>]]

\* new $cls(): the class expression is a variable node, whose name is a string
E_newVariable == [kind |-> "new", what |-> [kind |-> "variable", name |-> <<"c","l","s">>]]

\* new $$x(): the name of the variable node is itself a node
E_newVariableVariable == [kind |-> "new", what |-> [kind |-> "variable", name |-> NotAString]]

\* new class {}: an anonymous class has no name
E_newAnonymous == [kind |-> "new", what |-> [kind |-> "class", name |-> Null]]

LeafExprs ==
    {[kind |-> "array"], E_string, [kind |-> "heredoc"], E_int, E_float,
     [kind |-> "number", value |-> NotAString], [kind |-> "boolean"], E_null,
     [kind |-> "null"], E_newA, E_newB, E_newVariable, E_newVariableVariable,
     E_newAnonymous, [kind |-> "new", what |-> NoExpr], E_this, E_variable,
     [kind |-> "call"]}

Ternary(trueExpr, falseExpr) ==
    [kind |-> "retif", test |-> E_variable, trueExpr |-> trueExpr, falseExpr |-> falseExpr]

Binary(op, left, right) == [kind |-> "bin", type |-> op, left |-> left, right |-> right]

Operands ==
    LeafExprs \cup {Ternary(E_string, E_null), Ternary(E_newA, E_newB),
                    Binary("+", E_int, E_float)}

BinaryOperators == ArithmeticOperators \cup {".", "==", "&&", "instanceof", "??", "%"}

IsExpression(e) ==
    \/ e \in Operands
    \/ \E op \in {"!", "-"} : \E what \in Operands :
         e = [kind |-> "unary", type |-> op, what |-> what]
    \/ \E op \in BinaryOperators : \E left \in Operands : \E right \in Operands :
         e = Binary(op, left, right)
    \/ \E trueExpr \in Operands \cup {NoExpr} : \E falseExpr \in Operands :
         e = Ternary(trueExpr, falseExpr)

InitExpr ==
    /\ IsExpression(expr)
    /\ node = NoExpr
    /\ returnTypes = <<>>
    /\ hasReturn = FALSE
    /\ hasUnknownReturn = FALSE
    /\ PositionIdle
    /\ CacheIdle
    /\ HintIdle
    /\ contents = <<>>
    /\ contentIndex = 0
    /\ patternIndex = 0
    /\ type = <<>>
    /\ result = NoResult
    /\ pc = "expr"

InferExpression ==
    /\ pc = "expr"
    /\ result' = inferExpressionType(expr)
    /\ pc' = "typed"
    /\ UNCHANGED <<type, contents, contentIndex, patternIndex, inferVars, positionVars, cacheVars, hintVars>>

NextExpr == InferExpression

SpecExpr == InitExpr /\ [][NextExpr]_vars

(***************************************************************************)
(* inferReturnTypeFromAst.  collectReturnTypes walks every property of a   *)
(* node that holds a node or an array of nodes; returnTypes is the Set of   *)
(* the source in insertion order.                                          *)
(***************************************************************************)
FunctionLikeKinds == {"function", "method", "closure", "arrowfunc"}

\* The properties of a node that hold nodes, in the order of the for-in loop
Properties(n) ==
    CASE n.kind = "block" -> n.children
      [] n.kind = "if" ->
            <<n.test, n.body>> \o (IF n.alternate # NoExpr THEN <<n.alternate>> ELSE <<>>)
      [] n.kind = "return" -> IF n.expr # NoExpr THEN <<n.expr>> ELSE <<>>
      [] n.kind = "expressionstatement" -> <<n.expression>>
      [] n.kind = "class" -> n.body
      [] n.kind = "bin" -> <<n.left, n.right>>
      [] n.kind = "retif" ->
            <<n.test>> \o (IF n.trueExpr # NoExpr THEN <<n.trueExpr>> ELSE <<>>)
                \o <<n.falseExpr>>
      [] n.kind = "unary" -> <<n.what>>
      [] n.kind = "new" -> IF n.what # NoExpr THEN <<n.what>> ELSE <<>>
      [] OTHER -> <<>>

\* returnTypes, hasReturn and hasUnknownReturn before the walk
EmptyCollection ==
    [returnTypes |-> <<>>, hasReturn |-> FALSE, hasUnknownReturn |-> FALSE]

\* returnTypes.add(type)
SetAdd(types, t) ==
    IF \E i \in 1..Len(types) : types[i] = t THEN types ELSE Append(types, t)

\* Mutant: a return whose type is not determined is taken for a bare one
CollectUntypedAsBare(n, acc) == [acc EXCEPT !.hasReturn = TRUE]

\* else if (n.expr) { hasUnknownReturn = true; }
CollectUntyped(n, acc) ==
    IF n.expr # NoExpr
    THEN [acc EXCEPT !.hasReturn = TRUE, !.hasUnknownReturn = TRUE]
    ELSE [acc EXCEPT !.hasReturn = TRUE]

\* Mutant: a bare return is not counted as a return
CollectReturnSkippingBare(n, acc) ==
    IF n.expr = NoExpr THEN acc
    ELSE IF Truthy(inferExpressionType(n.expr))
    THEN [acc EXCEPT !.hasReturn = TRUE,
                     !.returnTypes = SetAdd(acc.returnTypes, inferExpressionType(n.expr))]
    ELSE CollectUntyped(n, acc)

\* if (n.kind === 'return') { ... }
CollectReturn(n, acc) ==
    IF Truthy(inferExpressionType(n.expr))
    THEN [acc EXCEPT !.hasReturn = TRUE,
                     !.returnTypes = SetAdd(acc.returnTypes, inferExpressionType(n.expr))]
    ELSE CollectUntyped(n, acc)

RECURSIVE collectReturnTypes(_, _)
RECURSIVE collectEach(_, _)
\* Mutant: the walk goes on into nested function-like nodes
collectReturnTypesDescending(n, acc) ==
    IF n = NoExpr THEN acc
    ELSE LET visited == IF n.kind = "return" THEN CollectReturn(n, acc) ELSE acc
         IN  IF n.kind \in FunctionLikeKinds THEN collectEach(<<n.body>>, visited)
             ELSE collectEach(Properties(n), visited)

collectReturnTypes(n, acc) ==
    IF n = NoExpr THEN acc
    ELSE LET visited == IF n.kind = "return" THEN CollectReturn(n, acc) ELSE acc
         IN  IF n.kind \in FunctionLikeKinds THEN visited
             ELSE collectEach(Properties(n), visited)

\* value.forEach(item => collectReturnTypes(item)), and one call per property
collectEach(nodes, acc) ==
    IF nodes = <<>> THEN acc
    ELSE collectEach(Tail(nodes), collectReturnTypes(Head(nodes), acc))

ClosedTypes == {S_int, S_float, S_string, S_bool, S_array, S_null, S_void}

\* Mutant: the two candidates are joined in the order they were met
NullPairInOrder(types) == join(types)

\* types.length === 2 && types.includes('null')
NullPair(types) ==
    LET others == {i \in 1..2 : types[i] # S_null}
    IN  IF others # {} /\ Truthy(types[Min(others)])
        THEN types[Min(others)] \o S_barNull
        ELSE Null

\* Mutant: the candidates are joined whatever they are
JoinAnyTypes(types) == join(types)

\* types.every(t => [...].includes(t)) ? types.join('|') : null
JoinClosedTypes(types) ==
    IF \A i \in 1..Len(types) : types[i] \in ClosedTypes THEN join(types) ELSE Null

\* Mutant: the test for an empty candidate set comes before the test of hasReturn
ReduceReturnTypesEmptyFirst(acc) ==
    IF acc.hasUnknownReturn THEN Null
    ELSE IF Len(acc.returnTypes) = 0 THEN Null
    ELSE IF ~acc.hasReturn THEN S_void
    ELSE IF Len(acc.returnTypes) = 1 THEN acc.returnTypes[1]
    ELSE IF Len(acc.returnTypes) = 2 /\ (\E i \in 1..2 : acc.returnTypes[i] = S_null)
    THEN NullPair(acc.returnTypes)
    ELSE JoinClosedTypes(acc.returnTypes)

\* The result computed from the collection, lines 300 to 327
ReduceReturnTypes(acc) ==
    IF acc.hasUnknownReturn THEN Null
    ELSE IF ~acc.hasReturn THEN S_void
    ELSE IF Len(acc.returnTypes) = 0 THEN Null
    ELSE IF Len(acc.returnTypes) = 1 THEN acc.returnTypes[1]
    ELSE IF Len(acc.returnTypes) = 2 /\ (\E i \in 1..2 : acc.returnTypes[i] = S_null)
    THEN NullPair(acc.returnTypes)
    ELSE JoinClosedTypes(acc.returnTypes)

\* The collection made for a node: none without a body or for an arrow function
CollectionOf(n) ==
    IF n.body = NoExpr \/ n.kind = "arrowfunc" THEN EmptyCollection
    ELSE collectReturnTypes(n.body, EmptyCollection)

inferReturnTypeFromAst(n) ==
    IF n.body = NoExpr THEN Null
    ELSE IF n.kind = "arrowfunc"
    THEN IF Truthy(inferExpressionType(n.body)) THEN inferExpressionType(n.body) ELSE Null
    ELSE ReduceReturnTypes(CollectionOf(n))

(***************************************************************************)
(* inferReturnTypeFromAst as a state machine.  A function body is a block  *)
(* of at most MaxStmts statements: returns, nested function-like nodes     *)
(* that hold returns of their own, conditionals, and a statement without   *)
(* any return; the bodies of MaxStmts statements are drawn from the        *)
(* returns and the nested nodes.  An arrow function has an expression for  *)
(* a body and an abstract method has none.                                 *)
(***************************************************************************)
Return(e) == [kind |-> "return", expr |-> e]

Block(children) == [kind |-> "block", children |-> children]

FunctionLike(kind, body) == [kind |-> kind, body |-> body]

If(body, alternate) ==
    [kind |-> "if", test |-> E_variable, body |-> body, alternate |-> alternate]

\* A class declaration: its body is the list of its members
Class(body) == [kind |-> "class", name |-> <<"K">>, body |-> body]

ExpressionStatement(e) == [kind |-> "expressionstatement", expression |-> e]

ReturnStatements ==
    {Return(E_string), Return(E_int), Return(E_null), Return(E_newA), Return(E_newB),
     Return(E_variable), Return(NoExpr), Return(Ternary(E_string, E_null)),
     Return(Ternary(E_newA, E_newB))}

\* Statements that hold a nested function-like node with a return of its own
NestedStatements ==
    {FunctionLike("function", Block(<<Return(E_string)>>)),
     ExpressionStatement(FunctionLike("closure", Block(<<Return(E_variable)>>))),
     Class(<<FunctionLike("method", Block(<<Return(E_int)>>))>>),
     ExpressionStatement(FunctionLike("arrowfunc",
         FunctionLike("closure", Block(<<Return(E_newA)>>)))),
     If(Block(<<FunctionLike("function", Block(<<Return(NoExpr)>>))>>), NoExpr)}

Statements ==
    ReturnStatements \cup NestedStatements
        \cup {Return(FunctionLike("closure", Block(<<Return(E_null)>>))),
              If(Block(<<Return(E_string)>>), NoExpr),
              If(Block(<<Return(E_int)>>), Block(<<Return(E_null)>>)),
              ExpressionStatement([kind |-> "call"])}

IsFunctionNode(n) ==
    \/ \E k \in 0..(MaxStmts - 1) : \E stmts \in [1..k -> Statements] :
         n = FunctionLike("function", Block(stmts))
    \/ \E stmts \in [1..MaxStmts -> ReturnStatements \cup NestedStatements] :
         n = FunctionLike("function", Block(stmts))
    \/ \E e \in Operands : n = FunctionLike("arrowfunc", e)
    \/ \E kind \in {"method", "arrowfunc"} : n = FunctionLike(kind, NoExpr)
    \/ \E stmt \in Statements : n = FunctionLike("method", Block(<<stmt>>))

InitInfer ==
    /\ IsFunctionNode(node)
    /\ expr = NoExpr
    /\ returnTypes = <<>>
    /\ hasReturn = FALSE
    /\ hasUnknownReturn = FALSE
    /\ PositionIdle
    /\ CacheIdle
    /\ HintIdle
    /\ contents = <<>>
    /\ contentIndex = 0
    /\ patternIndex = 0
    /\ type = <<>>
    /\ result = NoResult
    /\ pc = "infer"

InferReturnType ==
    /\ pc = "infer"
    /\ \E collected \in {CollectionOf(node)} :
          /\ returnTypes' = collected.returnTypes
          /\ hasReturn' = collected.hasReturn
          /\ hasUnknownReturn' = collected.hasUnknownReturn
    /\ result' = inferReturnTypeFromAst(node)
    /\ pc' = "inferred"
    /\ UNCHANGED <<type, contents, contentIndex, patternIndex, expr, node, positionVars, cacheVars, hintVars>>

NextInfer == InferReturnType

SpecInfer == InitInfer /\ [][NextInfer]_vars

(***************************************************************************)
(* getReturnTypeAtPosition.  A hover is the sequence of its contents; the  *)
(* hover request gives at most MaxHovers hovers or throws.                 *)
(***************************************************************************)
\* The loop over the patterns of one content, from pattern i on; Null when
\* no pattern returns
RECURSIVE extractFromText(_, _)
extractFromText(text, i) ==
    IF i > Len(patterns(text)) THEN Null
    ELSE LET m == match(text, patterns(text)[i])
             returnType == trim(m)
         IN  IF m # NoMatch /\ m # <<>> /\ IsCleanCapture(returnType)
             THEN normalizeReturnType(returnType)
             ELSE extractFromText(text, i + 1)

\* The loop over the contents of a hover, from content i on
RECURSIVE extractFromContents(_, _)
extractFromContents(cs, i) ==
    IF i > Len(cs) THEN Null
    ELSE CHOOSE returnType \in
            {IF extracted # Null THEN extracted ELSE extractFromContents(cs, i + 1) :
                extracted \in {extractFromText(cs[i], 1)}} : TRUE

extractReturnTypeFromHover(hover) == extractFromContents(hover, 1)

\* Mutant: an empty type is taken for a type
IsReturnTypeOrEmpty(returnType) == returnType # Null

\* if (returnType)
IsReturnType(returnType) == Truthy(returnType)

\* The type the fall-back gives: the inferencer's if a node was supplied
fallBack(astNode) == IF astNode # NoExpr THEN inferReturnTypeFromAst(astNode) ELSE Null

H_noContents == <<>>

H_noMatch == <<<<"x">>>>

\* The plain @return capture is one space: the extracted type is ''
H_emptyType == <<<<"@","r","e","t","u","r","n"," "," ","\n">>>>

H_signature == <<<<"f","u","n","c","t","i","o","n"," ","f","(","x",")",":"," ","A">>>>

H_docTag == <<<<"@","r","e","t","u","r","n"," ","B","[","]">>>>

H_secondContent == <<RejectedContent, <<"C","l","o","s","u","r","e","(","x",")",":"," ","C">>>>

HoverSamples == {H_noContents, H_noMatch, H_emptyType, H_signature, H_docTag, H_secondContent}

AstNodeSamples ==
    {NoExpr,
     FunctionLike("function", Block(<<Return(E_string)>>)),
     FunctionLike("function", Block(<<>>)),
     FunctionLike("function", Block(<<Return(E_variable)>>)),
     FunctionLike("method", NoExpr),
     FunctionLike("arrowfunc", E_int)}

InitPosition ==
    /\ \/ /\ hoverThrows = FALSE
          /\ \E k \in 0..MaxHovers : hovers \in [1..k -> HoverSamples]
       \/ /\ hoverThrows = TRUE
          /\ hovers = <<>>
    /\ node \in AstNodeSamples
    /\ hoverIndex = 0
    /\ inferencerRuns = 0
    /\ CacheIdle
    /\ HintIdle
    /\ expr = NoExpr
    /\ returnTypes = <<>>
    /\ hasReturn = FALSE
    /\ hasUnknownReturn = FALSE
    /\ contents = <<>>
    /\ contentIndex = 0
    /\ patternIndex = 0
    /\ type = <<>>
    /\ result = NoResult
    /\ pc = "request"

\* await vscode.commands.executeCommand('vscode.executeHoverProvider', ...)
RequestHovers ==
    /\ pc = "request"
    /\ IF hoverThrows
       THEN pc' = "catch" /\ UNCHANGED hoverIndex
       ELSE pc' = "hovers" /\ hoverIndex' = 1
    /\ UNCHANGED <<type, result, contents, contentIndex, patternIndex, inferVars,
                   hovers, hoverThrows, inferencerRuns, cacheVars, hintVars>>

\* One round of the loop over the hovers
TryHover ==
    /\ pc = "hovers"
    /\ hoverIndex <= Len(hovers)
    /\ \E returnType \in {extractReturnTypeFromHover(hovers[hoverIndex])} :
           IF IsReturnType(returnType)
           THEN result' = returnType /\ pc' = "returned" /\ UNCHANGED hoverIndex
           ELSE hoverIndex' = hoverIndex + 1 /\ UNCHANGED <<result, pc>>
    /\ UNCHANGED <<type, contents, contentIndex, patternIndex, inferVars,
                   hovers, hoverThrows, inferencerRuns, cacheVars, hintVars>>

\* No hover gave a type: the inferencer, if there is a node
FallBackToAst ==
    /\ pc = "hovers"
    /\ hoverIndex > Len(hovers)
    /\ result' = fallBack(node)
    /\ inferencerRuns' = IF node # NoExpr THEN inferencerRuns + 1 ELSE inferencerRuns
    /\ pc' = "returned"
    /\ UNCHANGED <<type, contents, contentIndex, patternIndex, inferVars,
                   hovers, hoverThrows, hoverIndex, cacheVars, hintVars>>

\* catch (error)
CatchError ==
    /\ pc = "catch"
    /\ result' = fallBack(node)
    /\ inferencerRuns' = IF node # NoExpr THEN inferencerRuns + 1 ELSE inferencerRuns
    /\ pc' = "returned"
    /\ UNCHANGED <<type, contents, contentIndex, patternIndex, inferVars,
                   hovers, hoverThrows, hoverIndex, cacheVars, hintVars>>

NextPosition == RequestHovers \/ TryHover \/ FallBackToAst \/ CatchError

SpecPosition == InitPosition /\ [][NextPosition]_vars

(***************************************************************************)
(* AstCache (astCache.ts).  The cache is a JavaScript Map, modelled as the *)
(* sequence of its entries in insertion order: set on a key that is        *)
(* present replaces the value where it stands, set on a new key appends,   *)
(* and keys() starts from the entry inserted first.                        *)
(***************************************************************************)
MapHas(map, key) == \E i \in 1..Len(map) : map[i].key = key

MapIndex(map, key) == CHOOSE i \in 1..Len(map) : map[i].key = key

MapGet(map, key) == map[MapIndex(map, key)].value

MapKeys(map) == [i \in 1..Len(map) |-> map[i].key]

MapSet(map, key, value) ==
    IF MapHas(map, key)
    THEN [map EXCEPT ![MapIndex(map, key)] = [key |-> key, value |-> value]]
    ELSE Append(map, [key |-> key, value |-> value])

\* Mutant: every entry is removed
MapDeleteAll(map, key) == <<>>

MapDelete(map, key) ==
    IF MapHas(map, key)
    THEN [i \in 1..(Len(map) - 1) |->
             IF i < MapIndex(map, key) THEN map[i] ELSE map[i + 1]]
    ELSE map

\* The parser: parseCode throws on text that is not PHP
T_test1 == "<?php function test1() {}"

T_test2 == "<?php function test2() {}"

T_invalid == "<?php this is not valid php code {{{"

Texts == {T_test1, T_test2, T_invalid}

\* Mutant: the parser accepts every text
parseCodeAcceptsAll(text) == FALSE

parseCodeThrows(text) == text = T_invalid

parseCode(text) == [kind |-> "program", text |-> text]

\* Mutant: an entry of any version is returned
IsCachedVersionAny(map, document) == MapHas(map, document.uri)

\* cached && cached.version === document.version
IsCachedVersion(map, document) ==
    MapHas(map, document.uri) /\ MapGet(map, document.uri).version = document.version

\* Mutant: nothing is evicted
evictOverflowNever(map, bound) == map

\* if (this.cache.size > this.maxSize) delete the first key
evictOverflow(map, bound) ==
    IF Len(map) > bound THEN MapDelete(map, map[1].key) ELSE map

\* The key that evictOverflow deletes, NoKey if none
NoKey == "<no key>"

evictedKey(map, bound) == IF Len(map) > bound THEN map[1].key ELSE NoKey

(***************************************************************************)
(* AstCache as a state machine: getAst, invalidate and clear, in any       *)
(* order, on documents of three URIs, versions up to MaxVersion and three  *)
(* texts, for a cache built with maxSize from 1 to MaxCacheSize.           *)
(***************************************************************************)
Uris == {"doc1.php", "doc2.php", "doc3.php"}

Documents == [uri : Uris, version : 1..MaxVersion, text : Texts]

\* The keys from the least to the most recently used, after an access to key
Touch(order, key) == SelectSeq(order, LAMBDA k : k # key) \o <<key>>

Forget(order, key) == SelectSeq(order, LAMBDA k : k # key)

\* The version cached for the document's URI before a call, 0 if none
CachedVersionOf(map, uri) == IF MapHas(map, uri) THEN MapGet(map, uri).version ELSE 0

InitCache ==
    /\ cache = <<>>
    /\ maxSize \in 1..MaxCacheSize
    /\ accessOrder = <<>>
    /\ last = NoCall
    /\ InferIdle
    /\ PositionIdle
    /\ HintIdle
    /\ contents = <<>>
    /\ contentIndex = 0
    /\ patternIndex = 0
    /\ type = <<>>
    /\ result = NoResult
    /\ pc = "cache"

\* getAst returns the cached AST
GetAstCached ==
    /\ pc = "cache"
    /\ \E document \in Documents :
         /\ IsCachedVersion(cache, document)
         /\ last' = [op |-> "getAst", document |-> document,
                     cachedVersion |-> CachedVersionOf(cache, document.uri),
                     sizeBefore |-> Len(cache),
                     parsed |-> FALSE, evicted |-> NoKey,
                     leastRecentlyUsed |-> NoKey,
                     ast |-> MapGet(cache, document.uri).ast]
         /\ accessOrder' = Touch(accessOrder, document.uri)
    /\ UNCHANGED <<cache, maxSize>>
    /\ UNCHANGED <<type, result, pc, contents, contentIndex, patternIndex, inferVars,
                   positionVars, hintVars>>

\* getAst parses, stores the AST and evicts the first key of a cache that is
\* over its bound
GetAstParsed ==
    /\ pc = "cache"
    /\ \E document \in Documents :
         /\ ~IsCachedVersion(cache, document)
         /\ ~parseCodeThrows(document.text)
         /\ \E stored \in {MapSet(cache, document.uri,
                                  [ast |-> parseCode(document.text),
                                   version |-> document.version])} :
              /\ cache' = evictOverflow(stored, maxSize)
              /\ accessOrder' = Forget(Touch(accessOrder, document.uri),
                                       evictedKey(stored, maxSize))
              /\ last' = [op |-> "getAst", document |-> document,
                          cachedVersion |-> CachedVersionOf(cache, document.uri),
                          sizeBefore |-> Len(cache),
                          parsed |-> TRUE, evicted |-> evictedKey(stored, maxSize),
                          leastRecentlyUsed |->
                              IF evictedKey(stored, maxSize) = NoKey THEN NoKey
                              ELSE Head(Touch(accessOrder, document.uri)),
                          ast |-> parseCode(document.text)]
    /\ UNCHANGED maxSize
    /\ UNCHANGED <<type, result, pc, contents, contentIndex, patternIndex, inferVars,
                   positionVars, hintVars>>

\* parseCode throws: the catch block returns null
GetAstFailed ==
    /\ pc = "cache"
    /\ \E document \in Documents :
         /\ ~IsCachedVersion(cache, document)
         /\ parseCodeThrows(document.text)
         /\ last' = [op |-> "getAst", document |-> document,
                     cachedVersion |-> CachedVersionOf(cache, document.uri),
                     sizeBefore |-> Len(cache),
                     parsed |-> TRUE, evicted |-> NoKey,
                     leastRecentlyUsed |-> NoKey,
                     ast |-> NoExpr]
    /\ UNCHANGED <<cache, maxSize, accessOrder>>
    /\ UNCHANGED <<type, result, pc, contents, contentIndex, patternIndex, inferVars,
                   positionVars, hintVars>>

Invalidate ==
    /\ pc = "cache"
    /\ \E uri \in Uris :
         /\ cache' = MapDelete(cache, uri)
         /\ accessOrder' = Forget(accessOrder, uri)
         /\ last' = [op |-> "invalidate", uri |-> uri, removed |-> MapHas(cache, uri)]
    /\ UNCHANGED maxSize
    /\ UNCHANGED <<type, result, pc, contents, contentIndex, patternIndex, inferVars,
                   positionVars, hintVars>>

Clear ==
    /\ pc = "cache"
    /\ cache' = <<>>
    /\ accessOrder' = <<>>
    /\ last' = [op |-> "clear"]
    /\ UNCHANGED maxSize
    /\ UNCHANGED <<type, result, pc, contents, contentIndex, patternIndex, inferVars,
                   positionVars, hintVars>>

NextCache == GetAstCached \/ GetAstParsed \/ GetAstFailed \/ Invalidate \/ Clear

SpecCache == InitCache /\ [][NextCache]_vars

(***************************************************************************)
(* parseFunctionCalls (parser.ts), from the call nodes on.  A location is  *)
(* the line and column where the node starts.                              *)
(***************************************************************************)
Position(line, character) == [line |-> line, character |-> character]

\* Mutant: no argument is taken for a named argument
isNamedNever(arg) == FALSE

\* const isNamed = arg.kind === 'namedargument'
isNamed(arg) == arg.kind = "namedargument"

\* extractArgumentInfo: the hint goes before the value of a named argument
extractArgumentInfo(arg) ==
    LET actualArg == IF isNamed(arg) /\ arg.value # NoExpr THEN arg.value ELSE arg
    IN  [position |-> Position(actualArg.loc.line - 1, actualArg.loc.column),
         text |-> arg.text,
         isNamed |-> isNamed(arg)]

\* findOpeningParenPosition: just after the parenthesis that follows the name
findOpeningParenPosition(callNode) ==
    Position(callNode.loc.line - 1, callNode.loc.column + callNode.parenIndex + 1)

\* extractCallInfo and extractNewInfo
extractCallInfo(callNode) ==
    [position |-> findOpeningParenPosition(callNode),
     arguments |-> [i \in 1..Len(callNode.arguments) |->
                        extractArgumentInfo(callNode.arguments[i])]]

parseFunctionCalls(callNodes) ==
    [i \in 1..Len(callNodes) |-> extractCallInfo(callNodes[i])]

(***************************************************************************)
(* provideInlayHints (inlayHintsProvider.ts).                              *)
(***************************************************************************)
\* labelStr.match(/\$(\w+)/): the name after the first dollar sign that has one
extractParameterName(label) ==
    LET starts == {i \in 1..(Len(label) - 1) :
                      label[i] = "$" /\ label[i + 1] \in WordChar}
    IN  IF label = NotAString \/ starts = {} THEN Null
        ELSE SubSeq(label, Min(starts) + 1, SkipWordChars(label, Min(starts) + 1) - 1)

\* arg.text.trim().match(/^\$(\w+)$/) with the parameter's name captured
shouldHideHint(arg, paramName, cfg) ==
    /\ cfg.hideWhenArgumentMatchesName
    /\ LET text == trim(arg.text)
       IN  /\ Len(text) >= 2
           /\ text[1] = "$"
           /\ \A i \in 2..Len(text) : text[i] \in WordChar
           /\ SubSeq(text, 2, Len(text)) = paramName

\* The hint of argument i of a call, if it gets one
HasHint(call, parameters, cfg, i) ==
    /\ ~call.arguments[i].isNamed
    /\ i <= Len(parameters)
    /\ extractParameterName(parameters[i]) # Null
    /\ ~shouldHideHint(call.arguments[i], extractParameterName(parameters[i]), cfg)

InlayHint(arg, paramName) == [position |-> arg.position, label |-> paramName \o <<":">>]

\* The loop over the arguments of one call
RECURSIVE hintsFrom(_, _, _, _)
hintsFrom(call, parameters, cfg, i) ==
    IF i > Len(call.arguments) THEN <<>>
    ELSE (IF HasHint(call, parameters, cfg, i)
          THEN <<InlayHint(call.arguments[i], extractParameterName(parameters[i]))>>
          ELSE <<>>) \o hintsFrom(call, parameters, cfg, i + 1)

\* Mutant: the token is never found requested
isCancellationRequestedNever(token) == FALSE

\* token.isCancellationRequested
isCancellationRequested(token) == token

\* The answers of the language server
NoSignatureHelp == [signatures |-> <<>>, activeSignature |-> 0, defined |-> FALSE]

SignatureHelp(signatures, activeSignature) ==
    [signatures |-> signatures, activeSignature |-> activeSignature, defined |-> TRUE]

\* signatureHelp.signatures[signatureHelp.activeSignature || 0].parameters throws
\* when the active signature is not one of the signatures
ThrowsOnSignature(signatureHelp) ==
    /\ signatureHelp.defined
    /\ Len(signatureHelp.signatures) > 0
    /\ signatureHelp.activeSignature + 1 > Len(signatureHelp.signatures)

(***************************************************************************)
(* provideInlayHints as a state machine.  A document holds one call of up  *)
(* to MaxArgs arguments, or up to MaxCalls calls of the sample shapes, one *)
(* call on a line.  The language server answers nothing, no signature, a   *)
(* signature of up to two parameters, or an active signature that is not   *)
(* there.  The token can be cancelled at any moment.                       *)
(***************************************************************************)
ArgText_name == <<"$","n","a","m","e">>

ArgText_one == <<"1">>

ArgText_named == <<"n","a","m","e",":"," ","1">>

Label_name == <<"s","t","r"," ","$","n","a","m","e">>

Label_id == <<"$"," ","$","i","d">>

Label_int == <<"i","n","t">>

Labels == {Label_name, Label_id, Label_int}

\* The argument nodes: $name, 1 and name: 1, at a place in the line
ArgShapes == {"variable", "number", "namedargument"}

ArgNode(shape, line, column) ==
    CASE shape = "variable" ->
            [kind |-> "variable", loc |-> [line |-> line, column |-> column],
             text |-> ArgText_name, value |-> NoExpr]
      [] shape = "number" ->
            [kind |-> "number", loc |-> [line |-> line, column |-> column],
             text |-> ArgText_one, value |-> NoExpr]
      [] shape = "namedargument" ->
            [kind |-> "namedargument", loc |-> [line |-> line, column |-> column],
             text |-> ArgText_named,
             value |-> [kind |-> "number", loc |-> [line |-> line, column |-> column + 6]]]

\* The call on a line, with the arguments of the given shapes ten columns apart
CallNode(shapes, line) ==
    [kind |-> "call", loc |-> [line |-> line, column |-> 0], parenIndex |-> 5,
     arguments |-> [j \in 1..Len(shapes) |-> ArgNode(shapes[j], line, 10 * j)]]

CallShapes ==
    {<<"variable", "namedargument">>, <<"number">>, <<"namedargument", "number">>}

IsDocument(callNodes) ==
    \/ \E k \in 0..MaxArgs : \E shapes \in [1..k -> ArgShapes] :
         callNodes = <<CallNode(shapes, 1)>>
    \/ \E k \in 0..MaxCalls : \E shapes \in [1..k -> CallShapes] :
         callNodes = [line \in 1..k |-> CallNode(shapes[line], line)]

Configs ==
    {[enabled |-> FALSE, hideWhenArgumentMatchesName |-> TRUE],
     [enabled |-> TRUE, hideWhenArgumentMatchesName |-> TRUE],
     [enabled |-> TRUE, hideWhenArgumentMatchesName |-> FALSE]}

ParameterLists == UNION {[1..k -> Labels] : k \in 0..2}

SignatureHelps ==
    {NoSignatureHelp, SignatureHelp(<<>>, 0),
     SignatureHelp(<<[parameters |-> <<Label_name>>]>>, 1)}
        \cup {SignatureHelp(<<[parameters |-> parameters]>>, 0) :
                parameters \in ParameterLists}

InitHints ==
    /\ IsDocument(ast)
    /\ config \in Configs
    /\ calls = <<>>
    /\ callIndex = 0
    /\ hints = <<>>
    /\ cancelled = FALSE
    /\ requests = <<>>
    /\ responses = <<>>
    /\ observedAt = 0
    /\ threw = FALSE
    /\ InferIdle
    /\ PositionIdle
    /\ CacheIdle
    /\ contents = <<>>
    /\ contentIndex = 0
    /\ patternIndex = 0
    /\ type = <<>>
    /\ result = NoResult
    /\ pc = "provide"

\* The configuration check and parseFunctionCalls
ProvideInlayHints ==
    /\ pc = "provide"
    /\ IF ~config.enabled
       THEN /\ result' = <<>>
            /\ pc' = "returned"
            /\ UNCHANGED <<calls, callIndex>>
       ELSE /\ calls' = parseFunctionCalls(ast)
            /\ callIndex' = 1
            /\ pc' = "loop"
            /\ UNCHANGED result
    /\ UNCHANGED <<ast, hints, config, cancelled, requests, responses, observedAt, threw>>
    /\ UNCHANGED <<type, contents, contentIndex, patternIndex, inferVars, positionVars,
                   cacheVars>>

\* The start of one round of the loop over the calls: the token is looked at,
\* then signature help is asked for
StartCall ==
    /\ pc = "loop"
    /\ callIndex <= Len(calls)
    /\ observedAt' = IF cancelled THEN callIndex ELSE 0
    /\ IF isCancellationRequested(cancelled)
       THEN /\ result' = hints
            /\ pc' = "returned"
            /\ UNCHANGED requests
       ELSE /\ requests' = Append(requests, calls[callIndex].position)
            /\ pc' = "await"
            /\ UNCHANGED result
    /\ UNCHANGED <<ast, calls, callIndex, hints, config, cancelled, responses, threw>>
    /\ UNCHANGED <<type, contents, contentIndex, patternIndex, inferVars, positionVars,
                   cacheVars>>

\* The answer of the language server arrives and the arguments are gone through
ReceiveSignatureHelp ==
    /\ pc = "await"
    /\ \E signatureHelp \in SignatureHelps :
         /\ responses' = Append(responses, signatureHelp)
         /\ IF ThrowsOnSignature(signatureHelp)
            THEN /\ threw' = TRUE
                 /\ result' = hints
                 /\ pc' = "returned"
                 /\ UNCHANGED <<hints, callIndex>>
            ELSE /\ hints' = IF signatureHelp.defined /\ Len(signatureHelp.signatures) > 0
                             THEN hints \o hintsFrom(calls[callIndex],
                                      signatureHelp.signatures[
                                          signatureHelp.activeSignature + 1].parameters,
                                      config, 1)
                             ELSE hints
                 /\ callIndex' = callIndex + 1
                 /\ pc' = "loop"
                 /\ UNCHANGED <<threw, result>>
    /\ UNCHANGED <<ast, calls, config, cancelled, requests, observedAt>>
    /\ UNCHANGED <<type, contents, contentIndex, patternIndex, inferVars, positionVars,
                   cacheVars>>

\* The loop has gone through every call
ReturnHints ==
    /\ pc = "loop"
    /\ callIndex > Len(calls)
    /\ result' = hints
    /\ pc' = "returned"
    /\ UNCHANGED hintVars
    /\ UNCHANGED <<type, contents, contentIndex, patternIndex, inferVars, positionVars,
                   cacheVars>>

\* The editor cancels the request
Cancel ==
    /\ pc \in {"provide", "loop", "await"}
    /\ ~cancelled
    /\ cancelled' = TRUE
    /\ UNCHANGED <<ast, calls, callIndex, hints, config, requests, responses, observedAt,
                   threw>>
    /\ UNCHANGED <<type, result, pc, contents, contentIndex, patternIndex, inferVars,
                   positionVars, cacheVars>>

NextHints == ProvideInlayHints \/ StartCall \/ ReceiveSignatureHelp \/ ReturnHints \/ Cancel

SpecHints == InitHints /\ [][NextHints]_vars

(***************************************************************************)
(* Vocabulary of the properties: the top-level members of a type string,   *)
(* stated by position and not by the scanning loops of the source.         *)
(***************************************************************************)
\* Openers minus closers strictly before position i
BracketDepthBefore(t, i) ==
    Cardinality({j \in 1..(i - 1) : t[j] \in {"<", "(", "{"}})
        - Cardinality({j \in 1..(i - 1) : t[j] \in {">", ")", "}"}})

TopLevelBars(t) == {i \in 1..Len(t) : t[i] = "|" /\ BracketDepthBefore(t, i) = 0}

\* The elements of seq at the indices of keep, in increasing index order
SelectByIndex(seq, keep) ==
    [m \in 1..Cardinality(keep) |->
        seq[CHOOSE i \in keep : Cardinality({c \in keep : c < i}) = m - 1]]

\* The segments between the top-level bars, empty ones included
TopLevelSegments(t) ==
    LET bars == TopLevelBars(t)
        n == Cardinality(bars)
        bar(m) == CHOOSE b \in bars : Cardinality({c \in bars : c < b}) = m - 1
    IN  [m \in 1..(n + 1) |->
            SubSeq(t, IF m = 1 THEN 1 ELSE bar(m - 1) + 1,
                      IF m = n + 1 THEN Len(t) ELSE bar(m) - 1)]

\* The members of a result; the empty string has none
Members(t) == IF t = <<>> THEN <<>> ELSE TopLevelSegments(t)

FirstOccurrences(seq) ==
    SelectByIndex(seq, {i \in 1..Len(seq) : \A j \in 1..(i - 1) : seq[j] # seq[i]})

NonEmptyOnly(seq) == SelectByIndex(seq, {i \in 1..Len(seq) : seq[i] # <<>>})

NoDuplicates(seq) == \A i, j \in 1..Len(seq) : i # j => seq[i] # seq[j]

IsNullable(t) == Len(t) > 0 /\ t[1] = "?"

\* The single-type normalisations of the trimmed top-level segments
NormalizedSegments(t) ==
    LET segs == TopLevelSegments(t)
    IN  [m \in 1..Len(segs) |-> normalizeSingleType(trim(segs[m]))]

(***************************************************************************)
(* C1: normalisation is idempotent: normalising a result again returns it  *)
(* unchanged.  The nullable branch breaks it ("?A|null" gives              *)
(* "A|null|null", which normalises to "A|null").                           *)
(***************************************************************************)
C1_Idempotent == pc = "done" => normalizePhpReturnType(result) = result

(***************************************************************************)
(* C2 as stated: for an input without leading "?" that has a top-level     *)
(* bar, the result is the "|"-join of the normalised trimmed segments with *)
(* later duplicates removed.  Empty segments make it fail ("A||A").        *)
(***************************************************************************)
C2_JoinOfAllSegments ==
    (pc = "done" /\ ~IsNullable(type) /\ TopLevelBars(type) # {})
        => result = JoinWith(FirstOccurrences(NormalizedSegments(type)), <<"|">>)

(***************************************************************************)
(* C2 amended: the result is the "|"-join of the normalised trimmed        *)
(* segments, those that are empty dropped, later duplicates removed and    *)
(* the survivors kept in first-occurrence order.                           *)
(***************************************************************************)
C2_JoinOfNonEmptySegments ==
    (pc = "done" /\ ~IsNullable(type) /\ TopLevelBars(type) # {})
        => result = JoinWith(FirstOccurrences(NonEmptyOnly(NormalizedSegments(type))), <<"|">>)

\* "A[]|null|int[]" gives "array|null": a later duplicate is removed, order kept
C2_Witness ==
    /\ pc = "done"
    /\ type = <<"A","[","]","|","n","u","l","l","|","i","n","t","[","]">>
    /\ result = <<"a","r","r","a","y","|","n","u","l","l">>

(***************************************************************************)
(* C3: no member occurs twice among the top-level members of a result,     *)
(* nullable inputs included.  The nullable branch breaks it ("?null"       *)
(* gives "null|null").                                                     *)
(***************************************************************************)
C3_Deduplicated == pc = "done" => NoDuplicates(Members(result))

(***************************************************************************)
(* C4: an input with doubled, leading or trailing top-level bars never     *)
(* gives a result with an empty member.  The nullable branch breaks it     *)
(* ("?A||A" gives "A||A|null").                                            *)
(***************************************************************************)
HasEmptySegment(t) ==
    /\ TopLevelBars(t) # {}
    /\ \E m \in 1..Len(TopLevelSegments(t)) : TopLevelSegments(t)[m] = <<>>

C4_NoEmptyMember ==
    (pc = "done" /\ HasEmptySegment(type))
        => \A m \in 1..Len(Members(result)) : Members(result)[m] # <<>>

(***************************************************************************)
(* C5: union splitting is depth-aware.  A type whose bars all lie inside   *)
(* brackets is normalised as one type, and a segment that is a             *)
(* parenthesised group is a member of the result verbatim.  Depth is the   *)
(* count of openers minus closers before the bar.                          *)
(***************************************************************************)
IsParenthesized(t) == Len(t) >= 2 /\ t[1] = "(" /\ t[Len(t)] = ")"

C5_DepthAwareSplit ==
    (pc = "done" /\ ~IsNullable(type)) =>
        /\ TopLevelBars(type) = {} => result = normalizeSingleType(type)
        /\ \A m \in 1..Len(TopLevelSegments(type)) :
              IsParenthesized(trim(TopLevelSegments(type)[m]))
                  => \E k \in 1..Len(Members(result)) :
                        Members(result)[k] = trim(TopLevelSegments(type)[m])

\* "(A[]|B)|C<A|B>" gives "(A[]|B)|C": only the bar at depth 0 splits
C5_Witness ==
    /\ pc = "done"
    /\ type = <<"(","A","[","]","|","B",")","|","C","<","A","|","B",">">>
    /\ result = <<"(","A","[","]","|","B",")","|","C">>

(***************************************************************************)
(* C6: an input that starts with "?" gives the single-type normalisation   *)
(* of the remainder followed by "|null", also when the remainder has a     *)
(* top-level bar.                                                          *)
(***************************************************************************)
C6_NullableRewrite ==
    (pc = "done" /\ IsNullable(type))
        => result = normalizeSingleType(SubSeq(type, 2, Len(type))) \o <<"|","n","u","l","l">>

\* "?User|int[]": the remainder is a union and is still taken as one type
C6_Witness ==
    /\ pc = "done"
    /\ type = <<"?","U","s","e","r","|","i","n","t","[","]">>
    /\ result = <<"a","r","r","a","y","|","n","u","l","l">>

(***************************************************************************)
(* C7: a callable or Closure signature (keyword in any case, zero or more  *)
(* parameters, optional return type) normalises to the keyword as written. *)
(* The code leaves "callable()" unchanged and turns a signature whose      *)
(* return type ends in "[]" into "array".                                  *)
(***************************************************************************)
KeywordOf(t) == SubSeq(t, 1, (CHOOSE i \in 1..Len(t) : t[i] = "(" /\ \A j \in 1..(i - 1) : t[j] # "(") - 1)

C7_CallableCollapses ==
    (pc = "single" /\ IsCallableInput(type)) => result = KeywordOf(type)

(***************************************************************************)
(* C8: normalizeSingleType strips an input to the bare name exactly when   *)
(* the input is a name followed by one balanced "<...>" block spanning the *)
(* whole remainder.  The code also strips "A<>>" and "A<<>".               *)
(***************************************************************************)
AngleDepthAfter(t, lo, i) ==
    Cardinality({j \in lo..i : t[j] = "<"}) - Cardinality({j \in lo..i : t[j] = ">"})

IsBalancedAngleBlock(t, lo, hi) ==
    /\ hi - lo >= 2
    /\ t[lo] = "<"
    /\ t[hi] = ">"
    /\ \A i \in lo..(hi - 1) : AngleDepthAfter(t, lo, i) > 0
    /\ AngleDepthAfter(t, lo, hi) = 0

C8_StrippedExactlyWhenBalanced ==
    pc = "single" =>
        LET t == trim(type)
            n == GenericNameLen(t)
        IN  (n > 0 /\ n < Len(t) /\ result = SubSeq(t, 1, n))
                <=> (n > 0 /\ n < Len(t) /\ IsBalancedAngleBlock(t, n + 1, Len(t)))

(***************************************************************************)
(* C9: the normaliser is total and never fabricates: every input has a     *)
(* result, a string, and a single type that no rule matches is returned    *)
(* trimmed with its letter case kept (blank input gives the empty string). *)
(***************************************************************************)
NoRuleMatches(t) ==
    /\ t # S_this
    /\ ~MatchesArraySuffix(t)
    /\ ~MatchesArrayGeneric(t)
    /\ ~MatchesList(t)
    /\ ~MatchesNonEmptyArray(t)
    /\ ~MatchesArrayShape(t)
    /\ ~MatchesCallable(t)
    /\ ~MatchesIntAlias(t)
    /\ ~MatchesStringAlias(t)
    /\ ~MatchesClassStringGeneric(t)
    /\ ~MatchesGeneric(t)

C9_TotalAndFaithful ==
    pc = "done" =>
        /\ \A i \in 1..Len(result) : result[i] \in Characters
        /\ (~IsNullable(type) /\ TopLevelBars(type) = {} /\ NoRuleMatches(trim(type)))
              => result = trim(type)

\* " A " gives "A": trimmed, upper case kept
C9_Witness ==
    /\ pc = "done"
    /\ type = <<" ","A"," ">>
    /\ result = <<"A">>

(***************************************************************************)
(* C10: the extractor tries its patterns in a fixed order: the function    *)
(* signature, the arrow-function signature, the bare Closure/callable      *)
(* signature (only for a text without "@return"), the backticked _@return_ *)
(* form, the plain @return form.  It returns the normalisation of the      *)
(* capture of the first pattern whose capture holds neither a code fence   *)
(* nor "*", and no match when no pattern of any content has such a         *)
(* capture.                                                                *)
(***************************************************************************)
PrecedenceOrder(text) ==
    IF includes(text, S_atReturn)
    THEN <<"function", "fn", "_@return_", "@return">>
    ELSE <<"function", "fn", "closureLike", "_@return_", "@return">>

HasCleanCapture(text, pattern) ==
    LET capture == match(text, pattern)
    IN  /\ capture # NoMatch
        /\ ~includes(capture, S_codeFence)
        /\ ~includes(capture, <<"*">>)

\* Index in the precedence order of the first pattern with a clean capture, or 0
FirstCleanPattern(text) ==
    LET order == PrecedenceOrder(text)
        hits == {j \in 1..Len(order) : HasCleanCapture(text, order[j])}
    IN  IF hits = {} THEN 0 ELSE Min(hits)

ExpectedExtraction(cs) ==
    LET hits == {i \in 1..Len(cs) : FirstCleanPattern(cs[i]) # 0}
    IN  IF hits = {} THEN Null
        ELSE LET text == cs[Min(hits)]
                 capture == match(text, PrecedenceOrder(text)[FirstCleanPattern(text)])
             IN  normalizeReturnType(trim(capture))

C10_PatternPrecedence ==
    /\ (pc = "hover" /\ contentIndex <= Len(contents)) =>
          LET text == contents[contentIndex]
              order == PrecedenceOrder(text)
          IN  \A j \in 1..(patternIndex - 1) :
                  j <= Len(order) => ~HasCleanCapture(text, order[j])
    /\ pc = "returned" => result = ExpectedExtraction(contents)

\* In "fn(x): B*/Closure(x): C" the arrow-function capture "B*/Closure(x):"
\* is rejected and the closure signature, third in the order, gives "C"
C10_Witness ==
    /\ pc = "returned"
    /\ contents = <<<<"f","n","(","x",")",":"," ","B","*","/","C","l","o","s","u","r","e","(","x",")",":"," ","C">>>>
    /\ patterns(contents[contentIndex])[patternIndex] = "closureLike"
    /\ type = <<"C">>
    /\ result = <<"C">>

(***************************************************************************)
(* C11: an @return tag whose type is a callable or Closure signature with  *)
(* a return type R, with or without a trailing newline or comment close,   *)
(* is extracted and normalised to the keyword of the signature, never to R *)
(* or its normalisation.  The code gives "array" when R ends in "[]" and   *)
(* leaves a signature without parameters as it is.                         *)
(***************************************************************************)
C11_ReturnTagGivesKeyword ==
    (pc = "returned" /\ Len(contents) = 1) =>
        \A lead \in ReturnTagLeads : \A kw \in CallableKeywords :
            \A k \in 0..MaxParams : \A f \in [1..k -> CallableParams] :
                \A ret \in CallableReturns \ {<<>>} : \A trailer \in ReturnTagTrailers :
                    contents[1] = ReturnTagText(lead, kw, f, ret, trailer) => result = kw

(***************************************************************************)
(* C12: getReturnTypeAtPosition returns the first non-empty type extracted *)
(* from the hovers, in order; the inferencer runs only when no hover gives *)
(* a type or the hover request throws, and then the result is the          *)
(* inferencer's if a node was supplied and null otherwise.  The inferencer *)
(* is never run once a hover has given a type.                             *)
(***************************************************************************)
\* The hovers, in order, that give a non-empty type
YieldingHovers ==
    {i \in 1..Len(hovers) :
        extractReturnTypeFromHover(hovers[i]) \notin {Null, <<>>}}

C12_HoverBeforeInference ==
    /\ inferencerRuns > 0 => (hoverThrows \/ YieldingHovers = {})
    /\ pc = "returned" =>
          IF ~hoverThrows /\ YieldingHovers # {}
          THEN /\ result = extractReturnTypeFromHover(hovers[Min(YieldingHovers)])
               /\ inferencerRuns = 0
          ELSE IF node # NoExpr
          THEN result = inferReturnTypeFromAst(node) /\ inferencerRuns = 1
          ELSE result = Null /\ inferencerRuns = 0

\* The first hover gives '', the second "A"; the node, which would give
\* "string", is not looked at
C12_Witness ==
    /\ pc = "returned"
    /\ hovers = <<H_emptyType, H_signature>>
    /\ hoverIndex = 2
    /\ node = FunctionLike("function", Block(<<Return(E_string)>>))
    /\ result = <<"A">>
    /\ inferencerRuns = 0

(***************************************************************************)
(* Vocabulary of the inferencer properties: the return statements of a     *)
(* body that lie outside every nested function-like node, in source order, *)
(* and the candidate types they give.                                      *)
(***************************************************************************)
\* The node has a body that is walked: not an arrow function, not bodiless
HasWalkedBody(n) == n.body # NoExpr /\ n.kind \notin {"arrowfunc"}

RECURSIVE WalkedReturns(_)
RECURSIVE WalkedReturnsOfEach(_)
WalkedReturns(n) ==
    IF n = NoExpr THEN <<>>
    ELSE IF n.kind \in {"function", "method", "closure", "arrowfunc"} THEN <<>>
    ELSE (IF n.kind = "return" THEN <<n>> ELSE <<>>) \o WalkedReturnsOfEach(Properties(n))

WalkedReturnsOfEach(nodes) ==
    IF nodes = <<>> THEN <<>>
    ELSE WalkedReturns(Head(nodes)) \o WalkedReturnsOfEach(Tail(nodes))

IsBareReturn(r) == r.expr = NoExpr

\* The return gives an expression whose type is not determined
IsUnresolvableReturn(r) == r.expr # NoExpr /\ inferExpressionType(r.expr) \in {Null, <<>>}

IsTypedReturn(r) == r.expr # NoExpr /\ inferExpressionType(r.expr) \notin {Null, <<>>}

\* The candidate types of a body in first-encountered order, duplicates dropped
CandidatesOf(body) ==
    LET typed == SelectSeq(WalkedReturns(body), IsTypedReturn)
    IN  FirstOccurrences([i \in 1..Len(typed) |-> inferExpressionType(typed[i].expr)])

HasUnresolvable(body) ==
    LET returns == WalkedReturns(body)
    IN  \E i \in 1..Len(returns) : IsUnresolvableReturn(returns[i])

\* The same tree with the body of every nested function-like node taken out
RECURSIVE WithoutNested(_)
WithoutNested(n) ==
    IF n = NoExpr THEN n
    ELSE IF n.kind \in {"function", "method", "closure", "arrowfunc"}
    THEN [kind |-> n.kind, body |-> NoExpr]
    ELSE CASE n.kind = "block" ->
                [kind |-> "block",
                 children |-> [i \in 1..Len(n.children) |-> WithoutNested(n.children[i])]]
           [] n.kind = "if" ->
                [kind |-> "if", test |-> n.test, body |-> WithoutNested(n.body),
                 alternate |-> WithoutNested(n.alternate)]
           [] n.kind = "return" -> [kind |-> "return", expr |-> WithoutNested(n.expr)]
           [] n.kind = "expressionstatement" ->
                [kind |-> "expressionstatement", expression |-> WithoutNested(n.expression)]
           [] n.kind = "class" ->
                Class([i \in 1..Len(n.body) |-> WithoutNested(n.body[i])])
           [] OTHER -> n

HasNested(n) == WithoutNested(n) # n

(***************************************************************************)
(* C13: nested function-like nodes are opaque: a return statement inside a *)
(* nested function, method, closure or arrow function, at any depth, adds  *)
(* no candidate and sets neither hasReturn nor hasUnknownReturn of the     *)
(* outer function.  Stated as: the collection and the result are those of  *)
(* the same body with the nested bodies taken out.                         *)
(***************************************************************************)
C13_NestedOpaque ==
    (pc = "inferred" /\ HasWalkedBody(node)) =>
        LET bare == collectReturnTypes(WithoutNested(node.body), EmptyCollection)
        IN  /\ returnTypes = bare.returnTypes
            /\ hasReturn = bare.hasReturn
            /\ hasUnknownReturn = bare.hasUnknownReturn
            /\ returnTypes = CandidatesOf(node.body)
            /\ hasReturn = (WalkedReturns(node.body) # <<>>)
            /\ hasUnknownReturn = HasUnresolvable(node.body)

\* A nested function returns a string and a nested closure a variable; the
\* outer function has the candidate int only
C13_Witness ==
    /\ pc = "inferred"
    /\ node = FunctionLike("function",
                Block(<<FunctionLike("function", Block(<<Return(E_string)>>)),
                        ExpressionStatement(
                            FunctionLike("closure", Block(<<Return(E_variable)>>))),
                        Return(E_int)>>))
    /\ returnTypes = <<S_int>>
    /\ hasReturn
    /\ ~hasUnknownReturn
    /\ result = S_int

(***************************************************************************)
(* C14: unresolvable poison: if any return statement of the walked body    *)
(* returns an expression whose type is not determined, the result is       *)
(* absent, whatever the number, types and order of the other returns.      *)
(***************************************************************************)
C14_UnresolvablePoison ==
    (pc = "inferred" /\ HasWalkedBody(node) /\ HasUnresolvable(node.body)) => result = Null

\* A literal on one path, a variable on the other, a literal again
C14_Witness ==
    /\ pc = "inferred"
    /\ node = FunctionLike("function",
                Block(<<Return(E_string), Return(E_variable), Return(E_int)>>))
    /\ returnTypes = <<S_string, S_int>>
    /\ result = Null

(***************************************************************************)
(* C15: a function-like node whose walked body holds no return statement   *)
(* outside nested function-like nodes infers "void".                       *)
(***************************************************************************)
C15_NoReturnIsVoid ==
    (pc = "inferred" /\ HasWalkedBody(node) /\ WalkedReturns(node.body) = <<>>) =>
        result = S_void

\* The returns of the body are all inside a nested function and a nested method
C15_Witness ==
    /\ pc = "inferred"
    /\ node = FunctionLike("function",
                Block(<<FunctionLike("function", Block(<<Return(E_string)>>)),
                        Class(<<FunctionLike("method", Block(<<Return(E_int)>>))>>),
                        If(Block(<<FunctionLike("function", Block(<<Return(NoExpr)>>))>>),
                           NoExpr)>>))
    /\ result = S_void

IsNullPair(candidates) ==
    Len(candidates) = 2 /\ \E i \in 1..2 : candidates[i] = S_null

C17_WitnessAbsent ==
    /\ pc = "inferred"
    /\ node = FunctionLike("function", Block(<<Return(E_newA), Return(E_newB)>>))
    /\ returnTypes = <<<<"A">>, <<"B">>>>
    /\ result = Null

(***************************************************************************)
(* C18: object-type unions are withheld: the result never is a union that  *)
(* joins two different class names.                                        *)
(***************************************************************************)
ClassNames == {<<"A">>, <<"B">>}

ClassMembers(t) ==
    IF t \in {Null, NoResult} THEN {}
    ELSE {Members(t)[i] : i \in 1..Len(Members(t))} \cap ClassNames

C18_NoClassUnion ==
    pc = "inferred" => Cardinality(ClassMembers(result)) <= 1

(***************************************************************************)
(* C19: a bare return sets hasReturn, adds no candidate and does not mark  *)
(* the inference unresolvable: a body whose only returns are bare infers   *)
(* absent, and the result of a body that has other returns is the result   *)
(* of the same body without its bare returns.                              *)
(***************************************************************************)
IsBareReturnStatement(st) == st = Return(NoExpr)

IsOtherStatement(st) == st # Return(NoExpr)

WithoutBareReturns(n) ==
    [kind |-> n.kind, body |-> Block(SelectSeq(n.body.children, IsOtherStatement))]

C19_BareReturn ==
    (pc = "inferred" /\ HasWalkedBody(node)) =>
        LET returns == WalkedReturns(node.body)
            others  == SelectSeq(node.body.children, IsOtherStatement)
        IN  /\ (\E i \in 1..Len(returns) : IsBareReturn(returns[i])) => hasReturn
            /\ (returns # <<>> /\ \A i \in 1..Len(returns) : IsBareReturn(returns[i])) =>
                    /\ returnTypes = <<>>
                    /\ ~hasUnknownReturn
                    /\ result = Null
            /\ WalkedReturns(Block(others)) # <<>> =>
                    LET collected == CollectionOf(WithoutBareReturns(node))
                    IN  /\ result = inferReturnTypeFromAst(WithoutBareReturns(node))
                        /\ returnTypes = collected.returnTypes
                        /\ hasUnknownReturn = collected.hasUnknownReturn

\* Only bare returns: absent, not void
C19_Witness ==
    /\ pc = "inferred"
    /\ node = FunctionLike("function", Block(<<Return(NoExpr), Return(NoExpr)>>))
    /\ hasReturn
    /\ returnTypes = <<>>
    /\ result = Null

\* A bare return between two typed returns leaves the result of the two
C19_WitnessAdded ==
    /\ pc = "inferred"
    /\ node = FunctionLike("function",
                Block(<<Return(E_string), Return(NoExpr), Return(E_null)>>))
    /\ result = S_string \o S_barNull

(***************************************************************************)
(* C20: object instantiation typing: "new X(...)" is typed as the class    *)
(* name X only when the instantiated class is a simple identifier; when    *)
(* the class expression is dynamic or computed the result is absent.       *)
(***************************************************************************)
IsSimpleIdentifier(what) == what # NoExpr /\ what.kind = "name"

C20_NewOnlySimpleIdentifier ==
    (pc = "typed" /\ expr.kind = "new") =>
        result = IF IsSimpleIdentifier(expr.what) THEN expr.what.name ELSE Null

(***************************************************************************)
(* C21: binary arithmetic typing: for +, -, * and / the result is "float"  *)
(* if either operand types to "float", otherwise "int" if either operand   *)
(* types to "int", and absent if both operand types are absent; "float"    *)
(* dominates "int" whatever the order of the operands.                     *)
(***************************************************************************)
IsArithmetic(e) == e.kind = "bin" /\ e.type \in {"+", "-", "*", "/"}

C21_ArithmeticTyping ==
    (pc = "typed" /\ IsArithmetic(expr)) =>
        LET leftType == inferExpressionType(expr.left)
            rightType == inferExpressionType(expr.right)
        IN  /\ (leftType = S_float \/ rightType = S_float) => result = S_float
            /\ (/\ leftType # S_float
                /\ rightType # S_float
                /\ (leftType = S_int \/ rightType = S_int)) => result = S_int
            /\ (leftType = Null /\ rightType = Null) => result = Null

\* An int on the left and a float on the right: float
C21_Witness ==
    /\ pc = "typed"
    /\ expr = Binary("-", E_int, E_float)
    /\ result = S_float

\* Two operands of undetermined type: absent
C21_WitnessAbsent ==
    /\ pc = "typed"
    /\ expr = Binary("*", E_variable, [kind |-> "call"])
    /\ result = Null

(***************************************************************************)
(* C22: ternary typing: the common type when both branches type            *)
(* identically, the two types joined with "|", the true branch first, when *)
(* both branches resolve to different types, and absent when either branch *)
(* is absent, the short form with no true branch included.                 *)
(***************************************************************************)
C22_TernaryTyping ==
    (pc = "typed" /\ expr.kind = "retif") =>
        LET trueType == inferExpressionType(expr.trueExpr)
            falseType == inferExpressionType(expr.falseExpr)
        IN  /\ (trueType = Null \/ falseType = Null) => result = Null
            /\ (trueType # Null /\ trueType = falseType) => result = trueType
            /\ (trueType # Null /\ falseType # Null /\ trueType # falseType) =>
                    result = trueType \o <<"|">> \o falseType
            /\ expr.trueExpr = NoExpr => result = Null

\* An int in the true branch and a string in the false branch
C22_Witness ==
    /\ pc = "typed"
    /\ expr = Ternary(E_int, E_string)
    /\ result = S_int \o <<"|">> \o S_string

\* The short form, with a typed false branch
C22_WitnessShort ==
    /\ pc = "typed"
    /\ expr = Ternary(NoExpr, E_string)
    /\ result = Null

(***************************************************************************)
(* C29: every result of inferReturnTypeFromAst that is not absent is a     *)
(* well-formed union: no type name occurs more than once among its         *)
(* members, "null" in particular, candidates from ternaries included.      *)
(***************************************************************************)
C29_ResultWithoutRepeatedMember ==
    (pc = "inferred" /\ result # Null) => NoDuplicates(Members(result))

(***************************************************************************)
(* Vocabulary of the cache properties.                                     *)
(***************************************************************************)
IsGetAst == last.op = "getAst"

ReturnedNull == last.ast = NoExpr

EntryOf(uri) == MapGet(cache, uri)

OneEntryPerUri ==
    \A i, j \in 1..Len(cache) : cache[i].key = cache[j].key => i = j

(***************************************************************************)
(* C23: getAst returns the stored AST without parsing if and only if there *)
(* is an entry for the document's URI whose version is document.version;   *)
(* otherwise it parses the text and stores the AST under the URI with the  *)
(* current version in place of any older entry.  The cache holds at most   *)
(* one entry per URI and the AST returned is never one stored for another  *)
(* version than the one asked for.                                         *)
(***************************************************************************)
C23_LookupRule ==
    /\ OneEntryPerUri
    /\ IsGetAst =>
         /\ ~last.parsed <=> last.cachedVersion = last.document.version
         /\ ~last.parsed => ~ReturnedNull
         /\ (last.parsed /\ last.document.text # T_invalid) =>
                last.ast = parseCode(last.document.text)
         /\ ~ReturnedNull =>
                /\ MapHas(cache, last.document.uri)
                /\ EntryOf(last.document.uri).ast = last.ast
                /\ EntryOf(last.document.uri).version = last.document.version

\* Version 1 was cached, version 2 is asked for: parsed, and the entry replaced
C23_Witness ==
    /\ IsGetAst
    /\ last.cachedVersion = 1
    /\ last.document.version = 2
    /\ last.parsed
    /\ Len(cache) = 1
    /\ EntryOf(last.document.uri) = [ast |-> parseCode(T_test2), version |-> 2]

(***************************************************************************)
(* C24: the cache is bounded: size never exceeds maxSize, and a new        *)
(* document put into a full cache evicts exactly one older entry and stays *)
(* in the cache itself.                                                    *)
(***************************************************************************)
C24_Bounded ==
    /\ Len(cache) <= maxSize
    /\ (IsGetAst /\ ~ReturnedNull /\ last.parsed) =>
         /\ (last.cachedVersion = 0 /\ last.sizeBefore = maxSize) <=> last.evicted # NoKey
         /\ last.evicted # NoKey =>
              /\ last.evicted # last.document.uri
              /\ ~MapHas(cache, last.evicted)
              /\ MapHas(cache, last.document.uri)
              /\ Len(cache) = last.sizeBefore

\* A third document enters a full cache of two
C24_Witness ==
    /\ IsGetAst
    /\ maxSize = 2
    /\ last.sizeBefore = 2
    /\ last.evicted = "doc1.php"
    /\ MapKeys(cache) = <<"doc2.php", "doc3.php">>

(***************************************************************************)
(* C25: the cache is an LRU cache: the entry evicted is the one whose most *)
(* recent getAst access, hit or parse, is the oldest.                      *)
(***************************************************************************)
C25_EvictsLeastRecentlyUsed ==
    (IsGetAst /\ last.evicted # NoKey) => last.evicted = last.leastRecentlyUsed

(***************************************************************************)
(* C26: when parsing fails, getAst returns null and leaves the cache as it *)
(* was: no entry is added, replaced or evicted, and size is unchanged.     *)
(***************************************************************************)
IsFailedGetAst(call) ==
    /\ call.op = "getAst"
    /\ call.parsed
    /\ call.document.text = T_invalid

C26_FailedParseLeavesCache ==
    /\ [](IsFailedGetAst(last) => (ReturnedNull /\ last.evicted = NoKey
                                   /\ Len(cache) = last.sizeBefore))
    /\ [][IsFailedGetAst(last') => cache' = cache]_vars

\* A text that is not PHP, for a URI cached with an older version: the older
\* entry stays
C26_Witness ==
    /\ IsFailedGetAst(last)
    /\ ReturnedNull
    /\ last.cachedVersion = 1
    /\ last.document.version = 2
    /\ Len(cache) = 2
    /\ EntryOf(last.document.uri).version = 1

(***************************************************************************)
(* C27: invalidate(uri) removes the entry of that URI and leaves every     *)
(* other entry as it was; the next getAst for the URI parses again, even   *)
(* for the version that was cached.                                        *)
(***************************************************************************)
C27_InvalidateOne ==
    /\ [][last'.op = "invalidate" =>
            cache' = SelectSeq(cache, LAMBDA entry : entry.key # last'.uri)]_vars
    /\ [][(last'.op = "getAst" /\ ~MapHas(cache, last'.document.uri)) => last'.parsed]_vars
    /\ [][(last.op = "invalidate" /\ last'.op = "getAst"
              /\ last'.document.uri = last.uri) => last'.parsed]_vars

\* One of two entries has been removed
C27_Witness ==
    /\ last.op = "invalidate"
    /\ last.removed
    /\ Len(cache) = 1
    /\ cache[1].key # last.uri

(***************************************************************************)
(* Properties of provideInlayHints.                                        *)
(***************************************************************************)
\* The places of the arguments written as named arguments: where the
\* argument starts and where its value starts, as editor positions
NamedArgumentPositions ==
    UNION {UNION {{Position(ast[c].arguments[j].loc.line - 1,
                            ast[c].arguments[j].loc.column),
                   Position(ast[c].arguments[j].value.loc.line - 1,
                            ast[c].arguments[j].value.loc.column)} :
                    j \in {k \in 1..Len(ast[c].arguments) :
                             ast[c].arguments[k].kind = "namedargument"}} :
           c \in 1..Len(ast)}

HintPositions(list) == {list[i].position : i \in 1..Len(list)}

\* C28: no hint that provideInlayHints collects or returns is placed at an
\* argument written as a named argument, whatever the calls of the document
\* and whatever signatures the language server answers
C28_NamedArgumentsUnhinted ==
    /\ HintPositions(hints) \cap NamedArgumentPositions = {}
    /\ pc = "returned" => HintPositions(result) \cap NamedArgumentPositions = {}

\* A call f($name, name: 1) answered with a signature of two named parameters:
\* the first argument got its hint, the named one would have got one as well
C28_Witness ==
    /\ pc = "returned"
    /\ Len(ast) = 1
    /\ Len(ast[1].arguments) = 2
    /\ ast[1].arguments[1].kind = "variable"
    /\ ast[1].arguments[2].kind = "namedargument"
    /\ Len(responses) = 1
    /\ responses[1] = SignatureHelp(<<[parameters |-> <<Label_id, Label_name>>]>>, 0)
    /\ result = <<[position |-> Position(0, 10), label |-> <<"i","d",":">>]>>

\* C30: a round of the loop that finds the token requested asks for no
\* signature help and ends the provider with exactly the hints collected in
\* the rounds before it; a throw while a call is processed likewise ends the
\* provider with the hints collected so far; once it has returned nothing
\* more is asked and the returned list stays
C30_CancellationStops ==
    /\ [](observedAt # 0 =>
            /\ pc = "returned"
            /\ result = hints
            /\ Len(requests) = observedAt - 1)
    /\ [](threw => pc = "returned" /\ result = hints)
    /\ [](pc = "returned" => (result = <<>> \/ result = hints))
    /\ [][(observedAt = 0 /\ observedAt' # 0) =>
            /\ requests' = requests
            /\ hints' = hints
            /\ result' = hints]_vars
    /\ [][(~threw /\ threw') => result' = hints /\ hints' = hints]_vars
    /\ [][pc = "returned" => (requests' = requests /\ result' = result)]_vars

\* The token was found requested at the start of the second call, after the
\* first call had got a hint
C30_Witness ==
    /\ pc = "returned"
    /\ observedAt = 2
    /\ Len(calls) = 2
    /\ Len(requests) = 1
    /\ Len(result) >= 1

\* The answer for the second call made the provider throw, after the first
\* call had got a hint
C30_WitnessThrew ==
    /\ pc = "returned"
    /\ threw
    /\ Len(requests) = 2
    /\ Len(result) >= 1

====
